---- MODULE Spec2Model ----
(***************************************************************************)
(* A model of the neuron classes of brainpy/_src/dyn/neurons/lif.py: one   *)
(* neuron-group instance (its class, mode, parameters, registered current  *)
(* inputs and state variables), the shared clock it reads, and the         *)
(* operations reset_state and update.  Voltages, currents and times are    *)
(* integers; a surrogate spike value s in [0,1] is the integer             *)
(* s * SpkScale.                                                           *)
(***************************************************************************)
EXTENDS Integers, Sequences, FiniteSets, TLC

\* ------------------------------------------------------------------ bounds
\* number of neurons of the population (size)
PopSize == 2
\* largest batch size handed to reset_state
MaxBatch == 1
\* last clock tick the driver reaches
MaxT == 3
\* update is explored only while every |V| is within this range
MaxAbsV == 400

\* --------------------------------------------------------------- constants
\* t_last_spike.fill_(-1e7)
Sentinel7 == -10000000
\* t_last_spike.fill_(-1e8)
Sentinel8 == -100000000

\* -------------------------------------------------------------- arithmetic
\* denominator of surrogate spike values: spk_fun returns k / SpkScale
SpkScale == 2

Max(a, b) == IF a >= b THEN a ELSE b

Min(a, b) == IF a <= b THEN a ELSE b

\* bm.exp on integers: 2^z for 0 <= z (capped), 0 below
ExpInt(z) == IF z < 0 THEN 0 ELSE 2 ^ Min(z, 8)

\* ----------------------------------------------------------------- tensors
\* A tensor is [present, shape, val]: shape is <<n>> or <<b, n>>, val maps each
\* index tuple of the shape to an element.  NoVar is an attribute never created.
NoVar == [present |-> FALSE, shape |-> <<>>, val |-> <<>>]

Idx(shape) ==
  IF Len(shape) = 1 THEN {<<i>> : i \in 1..shape[1]}
  ELSE {<<j, i>> : j \in 1..shape[1], i \in 1..shape[2]}

Tensor(shape, f) == [present |-> TRUE, shape |-> shape, val |-> f]

Fill(shape, c) == Tensor(shape, [i \in Idx(shape) |-> c])

\* ------------------------------------------------------- classes, parameters
Families == {"IF", "Lif", "ExpIF", "QuaIF", "AdExIF", "AdQuaIF", "Gif", "Izhikevich"}

\* The classes of __all__: <family>[Ref][LTC]; IF has no Ref form.
Classes ==
  {c \in [family : Families, ref : BOOLEAN, ltc : BOOLEAN] :
     c.family = "IF" => ~c.ref}

\* The constructor's neuron parameters (every one a keyword argument of
\* __init__; the values are the arguments the model is constructed with).
DefaultPar(family) ==
  CASE family = "IF" -> [V_rest |-> 0, R |-> 1, tau |-> 2, V0 |-> 0]
    [] family = "Lif" ->
         [V_rest |-> 0, V_reset |-> -5, V_th |-> 20, R |-> 1, tau |-> 2, V0 |-> 0]
    [] family = "ExpIF" ->
         [V_rest |-> 0, V_reset |-> -5, V_th |-> 20, V_T |-> 10, delta_T |-> 2,
          R |-> 1, tau |-> 2, V0 |-> 0]
    [] family = "QuaIF" ->
         [V_rest |-> 0, V_reset |-> -5, V_th |-> 20, V_c |-> 10, c |-> 1,
          R |-> 1, tau |-> 10, V0 |-> 0]
    [] family = "AdExIF" ->
         [V_rest |-> 0, V_reset |-> -5, V_th |-> 20, V_T |-> 10, delta_T |-> 2,
          a |-> 1, b |-> 4, R |-> 1, tau |-> 2, tau_w |-> 2, V0 |-> 0]
    [] family = "AdQuaIF" ->
         [V_rest |-> 0, V_reset |-> -5, V_th |-> 20, V_c |-> 10, c |-> 1,
          a |-> 1, b |-> 4, R |-> 1, tau |-> 10, tau_w |-> 2, V0 |-> 0]
    [] family = "Gif" ->
         [V_rest |-> 0, V_reset |-> -5, V_th_inf |-> 15, V_th_reset |-> 17,
          R |-> 1, tau |-> 2, a |-> 1, b |-> 1, k1 |-> 1, k2 |-> 0,
          R1 |-> 0, R2 |-> 1, A1 |-> 3, A2 |-> -1, V0 |-> 0]
    [] family = "Izhikevich" ->
         [V_th |-> 30, a |-> 1, b |-> 1, c |-> -65, d |-> 8, R |-> 1, tau |-> 10,
          V0 |-> -70]

\* The registered current inputs: each callable is out(V) = g * (E - V).
CurInputSets == {<<>>, <<[g |-> 1, E |-> 4]>>}

\* The constructor's remaining arguments: spk_fun, detach_spk, init_var, the
\* initializers and, for a Ref class, tau_ref and ref_var.
TauRefs == {0, 2}

\* The families built without init_var as well.
LateInit == {"IF", "Lif", "Izhikevich"}

Options(c, training) ==
  {o \in [spk_fun : IF training /\ c.family # "IF" THEN {"step", "soft"} ELSE {"step"},
          detach_spk : IF training /\ c.family # "IF" THEN BOOLEAN ELSE {FALSE},
          init_var : IF c.family \in LateInit THEN BOOLEAN ELSE {TRUE},
          V_initializer : {"const", "profile"},
          u_initializer : IF c.family = "Izhikevich" THEN {"None", "ZeroInit"} ELSE {"None"},
          tau_ref : IF c.ref THEN TauRefs ELSE {0},
          ref_var : IF c.ref THEN BOOLEAN ELSE {FALSE}] :
     /\ o.detach_spk = (o.spk_fun = "soft")
     /\ o.ref_var = (o.tau_ref > 0)
     /\ ~o.init_var => o.V_initializer = "profile"
     /\ o.u_initializer = "ZeroInit" => (o.init_var /\ o.V_initializer = "const")}

\* The combinations of options and registered inputs the model is built with:
\* a position-dependent V initializer without registered inputs, or a constant
\* one with a registered input.
Setups(c, training) ==
  {su \in [o : Options(c, training), ci : CurInputSets] :
     (su.ci # <<>>) = (su.o.V_initializer = "const")}

\* update's argument x: omitted (None) or a scalar current.
Inputs == {26}

XArgs == {[given |-> FALSE, value |-> 0]} \cup {[given |-> TRUE, value |-> v] : v \in Inputs}

\* --------------------------------------------------------------- surrogate
\* spk_fun(x) * SpkScale: the exact step, or a graded value around the threshold.
spk_fun(kind, x) ==
  IF kind = "step" THEN (IF x >= 0 THEN SpkScale ELSE 0)
  ELSE IF x < -2 THEN 0
  ELSE IF x >= 2 THEN SpkScale
  ELSE SpkScale \div 2

\* a * s for a surrogate value s
Scaled(a, s) == (a * s) \div SpkScale

\* ------------------------------------------------------------ current inputs
RECURSIVE SumInputs(_, _)
\* for out in self.cur_inputs.values(): I += out(V)
SumInputs(ci, v) ==
  IF ci = <<>> THEN 0
  ELSE Head(ci).g * (Head(ci).E - v) + SumInputs(Tail(ci), v)

\* --------------------------------------------------------------- derivatives
\* LTC forms add the registered inputs, evaluated on the derivative's own V;
\* the simplified forms receive the aggregated current from update.
IFLTC_derivative(p, ci, V, t, I) ==
  (-V + p.V_rest + p.R * (I + SumInputs(ci, V))) \div p.tau

IF_derivative(p, V, t, I) == (-V + p.V_rest + p.R * I) \div p.tau

LifLTC_derivative(p, ci, V, t, I) ==
  (-V + p.V_rest + p.R * (I + SumInputs(ci, V))) \div p.tau

\* also LifRef.derivative
Lif_derivative(p, V, t, I) == (-V + p.V_rest + p.R * I) \div p.tau

ExpIFLTC_derivative(p, ci, V, t, I) ==
  LET exp_v == p.delta_T * ExpInt((V - p.V_T) \div p.delta_T)
  IN (-(V - p.V_rest) + exp_v + p.R * (I + SumInputs(ci, V))) \div p.tau

\* also ExpIFRef.derivative
ExpIF_derivative(p, V, t, I) ==
  LET exp_v == p.delta_T * ExpInt((V - p.V_T) \div p.delta_T)
  IN (-(V - p.V_rest) + exp_v + p.R * I) \div p.tau

QuaIFLTC_derivative(p, ci, V, t, I) ==
  (p.c * (V - p.V_rest) * (V - p.V_c) + p.R * (I + SumInputs(ci, V))) \div p.tau

\* also QuaIFRef.derivative
QuaIF_derivative(p, V, t, I) ==
  (p.c * (V - p.V_rest) * (V - p.V_c) + p.R * I) \div p.tau

AdExIFLTC_dV(p, ci, V, t, w, I) ==
  LET exp == p.delta_T * ExpInt((V - p.V_T) \div p.delta_T)
  IN (-V + p.V_rest + exp - p.R * w + p.R * (I + SumInputs(ci, V))) \div p.tau

\* also AdExIFRef.dV
AdExIF_dV(p, V, t, w, I) ==
  LET exp == p.delta_T * ExpInt((V - p.V_T) \div p.delta_T)
  IN (-V + p.V_rest + exp - p.R * w + p.R * I) \div p.tau

\* the same in AdExIF and AdExIFRef
AdExIFLTC_dw(p, w, t, V) == (p.a * (V - p.V_rest) - w) \div p.tau_w

AdQuaIFLTC_dV(p, ci, V, t, w, I) ==
  (p.c * (V - p.V_rest) * (V - p.V_c) - w + (I + SumInputs(ci, V))) \div p.tau

\* also AdQuaIFRef.dV
AdQuaIF_dV(p, V, t, w, I) ==
  (p.c * (V - p.V_rest) * (V - p.V_c) - w + I) \div p.tau

\* the same in AdQuaIF and AdQuaIFRef
AdQuaIFLTC_dw(p, w, t, V) == (p.a * (V - p.V_rest) - w) \div p.tau_w

\* the same in Gif and GifRef
GifLTC_dI1(p, I1, t) == -(p.k1 * I1)

GifLTC_dI2(p, I2, t) == -(p.k2 * I2)

GifLTC_dVth(p, V_th, t, V) == p.a * (V - p.V_rest) - p.b * (V_th - p.V_th_inf)

GifLTC_dV(p, ci, V, t, I1, I2, I) ==
  (-(V - p.V_rest) + p.R * ((I + SumInputs(ci, V)) + I1 + I2)) \div p.tau

\* also GifRef.dV
Gif_dV(p, V, t, I1, I2, I) ==
  (-(V - p.V_rest) + p.R * (I + I1 + I2)) \div p.tau

\* 0.04 * V * V + 5 * V + 140 - u + I
IzhikevichLTC_dV(p, ci, V, t, u, I) ==
  (4 * V * V) \div 100 + 5 * V + 140 - u + (I + SumInputs(ci, V))

\* also IzhikevichRef.dV
Izhikevich_dV(p, V, t, u, I) == (4 * V * V) \div 100 + 5 * V + 140 - u + I

\* the same in Izhikevich and IzhikevichRef
IzhikevichLTC_du(p, u, t, V) == p.a * (p.b * V - u)

\* ---------------------------------------------------------------- integrator
\* self.integral = odeint(method=method, f=self.derivative), one explicit
\* fixed step: every variable of a JointEq advances from the same old values.
\* s is one neuron's stored state; the result holds its integrated variables.
integral(c, p, ci, s, t, x, dt) ==
  LET f == c.family
      dVdt ==
        CASE f = "IF" -> IF c.ltc THEN IFLTC_derivative(p, ci, s.V, t, x)
                         ELSE IF_derivative(p, s.V, t, x)
          [] f = "Lif" -> IF c.ltc THEN LifLTC_derivative(p, ci, s.V, t, x)
                          ELSE Lif_derivative(p, s.V, t, x)
          [] f = "ExpIF" -> IF c.ltc THEN ExpIFLTC_derivative(p, ci, s.V, t, x)
                            ELSE ExpIF_derivative(p, s.V, t, x)
          [] f = "QuaIF" -> IF c.ltc THEN QuaIFLTC_derivative(p, ci, s.V, t, x)
                            ELSE QuaIF_derivative(p, s.V, t, x)
          [] f = "AdExIF" -> IF c.ltc THEN AdExIFLTC_dV(p, ci, s.V, t, s.w, x)
                             ELSE AdExIF_dV(p, s.V, t, s.w, x)
          [] f = "AdQuaIF" -> IF c.ltc THEN AdQuaIFLTC_dV(p, ci, s.V, t, s.w, x)
                              ELSE AdQuaIF_dV(p, s.V, t, s.w, x)
          [] f = "Gif" -> IF c.ltc THEN GifLTC_dV(p, ci, s.V, t, s.I1, s.I2, x)
                          ELSE Gif_dV(p, s.V, t, s.I1, s.I2, x)
          [] f = "Izhikevich" -> IF c.ltc THEN IzhikevichLTC_dV(p, ci, s.V, t, s.u, x)
                                 ELSE Izhikevich_dV(p, s.V, t, s.u, x)
  IN [V |-> s.V + dVdt * dt,
      w |-> CASE f = "AdExIF" -> s.w + AdExIFLTC_dw(p, s.w, t, s.V) * dt
              [] f = "AdQuaIF" -> s.w + AdQuaIFLTC_dw(p, s.w, t, s.V) * dt
              [] OTHER -> 0,
      u |-> IF f = "Izhikevich" THEN s.u + IzhikevichLTC_du(p, s.u, t, s.V) * dt ELSE 0,
      I1 |-> IF f = "Gif" THEN s.I1 + GifLTC_dI1(p, s.I1, t) * dt ELSE 0,
      I2 |-> IF f = "Gif" THEN s.I2 + GifLTC_dI2(p, s.I2, t) * dt ELSE 0,
      V_th |-> IF f = "Gif" THEN s.V_th + GifLTC_dVth(p, s.V_th, t, s.V) * dt ELSE 0,
      order |-> <<"derivative", "integration">>]

\* -------------------------------------------------------------------- update
\* One neuron's part of update.  p: parameters, o: options, ci: cur_inputs,
\* s: the neuron's stored state, x: update's argument.  The result holds the
\* values update stores (V .. refractory), what it returns, and its locals:
\* y (the integrator's output), gate (the local refractory) and Vg (the
\* voltage handed to the spike/reset stage).  spike_reset(y) is the part of
\* update that follows the call of self.integral.  order lists the stages of
\* the call in the order the statements run; "write_refractory" and "commit"
\* are the assignments to state variables.
XValue(x) == IF x.given THEN x.value ELSE 0

Given(v) == [given |-> TRUE, value |-> v]

\* The gradient tag of stop_gradient(value): the value carries no gradient.
stop_gradient(g) == FALSE

\* What update records of the path it takes.  checks: how many times it tests
\* isinstance(self.mode, bm.TrainingMode); prims: which of spk_fun,
\* stop_gradient, the hard comparison with the threshold and the overwrite
\* bm.where(spike, <reset value>, V) it uses; spike: whether the spike it stores
\* and returns carries gradient; book: whether the spike it uses for
\* t_last_spike and the refractory flag does.
NoTrace == [checks |-> 0, prims |-> {}, spike |-> FALSE, book |-> FALSE]

\* if isinstance(self.mode, bm.TrainingMode): spike = self.spk_fun(...);
\* spike = stop_gradient(spike) if self.detach_spk else spike
TrainingTrace(o) ==
  LET spike0 == TRUE
      spike == IF o.detach_spk THEN stop_gradient(spike0) ELSE spike0
  IN [checks |-> 1,
      prims |-> {"spk_fun"} \cup (IF o.detach_spk THEN {"stop_gradient"} ELSE {}),
      spike |-> spike, book |-> FALSE]

\* else: spike = V >= self.V_th; V = bm.where(spike, self.V_reset, V)
InferenceTrace ==
  [checks |-> 1, prims |-> {"hard_threshold", "overwrite"}, spike |-> FALSE,
   book |-> FALSE]

\* A Ref class tests the mode for the gate (refractory = stop_gradient(...))
\* and again for the spike stage: spike = self.spk_fun(...); spike_no_grad =
\* stop_gradient(spike) if self.detach_spk else spike; spike_ = spike_no_grad > 0.
RefTrainingTrace(o) ==
  LET spike == TRUE
      spike_no_grad == IF o.detach_spk THEN stop_gradient(spike) ELSE spike
  IN [checks |-> 2, prims |-> {"spk_fun", "stop_gradient"},
      spike |-> spike, book |-> spike_no_grad]

RefInferenceTrace ==
  [checks |-> 2, prims |-> {"hard_threshold", "overwrite"}, spike |-> FALSE,
   book |-> FALSE]

Stored(s, y) ==
  [V |-> s.V, w |-> s.w, u |-> s.u, I1 |-> s.I1, I2 |-> s.I2, V_th |-> s.V_th,
   spike |-> s.spike, t_last_spike |-> s.t_last_spike, refractory |-> s.refractory,
   returns |-> "spike", y |-> y, gate |-> FALSE, Vg |-> y.V,
   order |-> y.order \o <<"spike", "reset", "commit">>, trace |-> NoTrace]

\* The statements of a Ref class's update after the integration: the gate, the
\* spike and the resets, self.refractory.value = ... when ref_var is set, the
\* local t_last_spike, and the assignments that end the method.
RefStages(o) ==
  <<"gating", "spike", "reset">>
    \o (IF o.ref_var THEN <<"write_refractory">> ELSE <<>>)
    \o <<"spike_time", "commit">>

\* IFLTC.update that integrates twice in one call.
IFLTC_update_two_steps(c, p, o, ci, training, s, t, x, dt) ==
  LET spike_reset(y) ==
        [Stored(s, y) EXCEPT
           !.V = integral(c, p, ci, [s EXCEPT !.V = y.V], t, XValue(x), dt).V,
           !.returns = "V"]
  IN spike_reset(integral(c, p, ci, s, t, XValue(x), dt))

IFLTC_update(c, p, o, ci, training, s, t, x, dt) ==
  LET spike_reset(y) ==
        [Stored(s, y) EXCEPT !.V = y.V, !.returns = "V",
                             !.order = y.order \o <<"commit">>]
  IN spike_reset(integral(c, p, ci, s, t, XValue(x), dt))

IF_update(c, p, o, ci, training, s, t, x, dt) ==
  LET x1 == XValue(x) + SumInputs(ci, s.V)
  IN [IFLTC_update(c, p, o, ci, training, s, t, Given(x1), dt) EXCEPT !.returns = "None",
      !.order = <<"cur_inputs">> \o @]

\* LifLTC.update with the reset of V left out: the spike is computed, the
\* integrated voltage is stored as it is.
LifLTC_update_no_reset(c, p, o, ci, training, s, t, x, dt) ==
  LET spike_reset(y) ==
        [Stored(s, y) EXCEPT
           !.V = y.V,
           !.trace = IF training THEN TrainingTrace(o) ELSE InferenceTrace,
           !.spike = IF training THEN spk_fun(o.spk_fun, y.V - p.V_th)
                     ELSE y.V >= p.V_th]
  IN spike_reset(integral(c, p, ci, s, t, XValue(x), dt))

\* LifLTC.update that mixes the paths in a training mode: the surrogate spike
\* with the exact overwrite of the voltage.
LifLTC_update_mixed(c, p, o, ci, training, s, t, x, dt) ==
  LET spike_reset(y) ==
        LET V == y.V
        IN IF training
           THEN LET spike == spk_fun(o.spk_fun, V - p.V_th)
                IN [Stored(s, y) EXCEPT
                      !.V = IF spike > 0 THEN p.V_reset ELSE V,
                      !.trace = [TrainingTrace(o) EXCEPT !.prims = @ \cup {"overwrite"}],
                      !.spike = spike]
           ELSE LET spike == V >= p.V_th
                IN [Stored(s, y) EXCEPT !.V = IF spike THEN p.V_reset ELSE V,
                                        !.trace = InferenceTrace, !.spike = spike]
  IN spike_reset(integral(c, p, ci, s, t, XValue(x), dt))

\* LifLTC.update whose spike variable stays set once the neuron has spiked.
LifLTC_update_sticky(c, p, o, ci, training, s, t, x, dt) ==
  LET spike_reset(y) ==
        LET V == y.V
        IN IF training
           THEN LET spike == Max(s.spike, spk_fun(o.spk_fun, V - p.V_th))
                IN [Stored(s, y) EXCEPT !.V = V + Scaled(p.V_reset - V, spike),
                                        !.trace = TrainingTrace(o), !.spike = spike]
           ELSE LET spike == s.spike \/ V >= p.V_th
                IN [Stored(s, y) EXCEPT !.V = IF spike THEN p.V_reset ELSE V,
                                        !.trace = InferenceTrace, !.spike = spike]
  IN spike_reset(integral(c, p, ci, s, t, XValue(x), dt))

LifLTC_update(c, p, o, ci, training, s, t, x, dt) ==
  LET spike_reset(y) ==
        LET V == y.V
        IN IF training
           THEN LET spike == spk_fun(o.spk_fun, V - p.V_th)
                IN [Stored(s, y) EXCEPT !.V = V + Scaled(p.V_reset - V, spike),
                                        !.trace = TrainingTrace(o), !.spike = spike]
           ELSE LET spike == V >= p.V_th
                IN [Stored(s, y) EXCEPT !.V = IF spike THEN p.V_reset ELSE V,
                                        !.trace = InferenceTrace, !.spike = spike]
  IN spike_reset(integral(c, p, ci, s, t, XValue(x), dt))

\* Lif.update whose aggregated current then goes to a derivative that adds the
\* registered inputs once more.
Lif_update_counted_twice(c, p, o, ci, training, s, t, x, dt) ==
  LET x1 == XValue(x) + SumInputs(ci, s.V) + SumInputs(ci, s.V)
  IN [LifLTC_update(c, p, o, ci, training, s, t, Given(x1), dt) EXCEPT !.returns = "None",
      !.order = <<"cur_inputs">> \o @]

Lif_update(c, p, o, ci, training, s, t, x, dt) ==
  LET x1 == XValue(x) + SumInputs(ci, s.V)
  IN [LifLTC_update(c, p, o, ci, training, s, t, Given(x1), dt) EXCEPT !.returns = "None",
      !.order = <<"cur_inputs">> \o @]

\* LifRefLTC.update with the refractory gate left out: the integrated voltage
\* always goes on to the spike/reset stage.
LifRefLTC_update_no_gate(c, p, o, ci, training, s, t, x, dt) ==
  LET spike_reset(y) ==
        LET refractory == (t - s.t_last_spike) <= o.tau_ref
            V == y.V
            spike == IF training THEN spk_fun(o.spk_fun, V - p.V_th) ELSE V >= p.V_th
            spike_ == IF training THEN spike > 0 ELSE spike
        IN [Stored(s, y) EXCEPT
              !.V = IF training THEN V + Scaled(p.V_reset - V, spike)
                    ELSE IF spike THEN p.V_reset ELSE V,
              !.trace = IF training THEN RefTrainingTrace(o) ELSE RefInferenceTrace,
              !.spike = spike,
              !.refractory = IF o.ref_var THEN (refractory \/ spike_) ELSE @,
              !.t_last_spike = IF spike_ THEN t ELSE @,
              !.gate = refractory, !.Vg = V,
              !.order = y.order \o RefStages(o)]
  IN spike_reset(integral(c, p, ci, s, t, XValue(x), dt))

\* LifRefLTC.update that never writes t_last_spike.
LifRefLTC_update_no_stamp(c, p, o, ci, training, s, t, x, dt) ==
  LET spike_reset(y) ==
        LET refractory == (t - s.t_last_spike) <= o.tau_ref
            V == IF refractory THEN s.V ELSE y.V
            spike == IF training THEN spk_fun(o.spk_fun, V - p.V_th) ELSE V >= p.V_th
            spike_ == IF training THEN spike > 0 ELSE spike
        IN [Stored(s, y) EXCEPT
              !.V = IF training THEN V + Scaled(p.V_reset - V, spike)
                    ELSE IF spike THEN p.V_reset ELSE V,
              !.trace = IF training THEN RefTrainingTrace(o) ELSE RefInferenceTrace,
              !.spike = spike,
              !.refractory = IF o.ref_var THEN (refractory \/ spike_) ELSE @,
              !.gate = refractory, !.Vg = V,
              !.order = y.order \o RefStages(o)]
  IN spike_reset(integral(c, p, ci, s, t, XValue(x), dt))

\* LifRefLTC.update that writes the refractory flag right after the gate,
\* before the spike is computed.
LifRefLTC_update_early_write(c, p, o, ci, training, s, t, x, dt) ==
  LET spike_reset(y) ==
        LET refractory == (t - s.t_last_spike) <= o.tau_ref
            V == IF refractory THEN s.V ELSE y.V
            spike == IF training THEN spk_fun(o.spk_fun, V - p.V_th) ELSE V >= p.V_th
            spike_ == IF training THEN spike > 0 ELSE spike
        IN [Stored(s, y) EXCEPT
              !.V = IF training THEN V + Scaled(p.V_reset - V, spike)
                    ELSE IF spike THEN p.V_reset ELSE V,
              !.trace = IF training THEN RefTrainingTrace(o) ELSE RefInferenceTrace,
              !.spike = spike,
              !.refractory = IF o.ref_var THEN refractory ELSE @,
              !.t_last_spike = IF spike_ THEN t ELSE @,
              !.gate = refractory, !.Vg = V,
              !.order = y.order \o <<"gating", "write_refractory", "spike", "reset",
                                     "spike_time", "commit">>]
  IN spike_reset(integral(c, p, ci, s, t, XValue(x), dt))

\* LifRefLTC.update that leaves the voltage of a spiking neuron where it is in
\* inference mode.
LifRefLTC_update_reset_skipped(c, p, o, ci, training, s, t, x, dt) ==
  LET spike_reset(y) ==
        LET refractory == (t - s.t_last_spike) <= o.tau_ref
            V == IF refractory THEN s.V ELSE y.V
        IN IF training
           THEN LET spike == spk_fun(o.spk_fun, V - p.V_th)
                    spike_ == spike > 0
                IN [Stored(s, y) EXCEPT
                      !.V = V + Scaled(p.V_reset - V, spike),
                      !.trace = RefTrainingTrace(o), !.spike = spike,
                      !.refractory = IF o.ref_var THEN (refractory \/ spike_) ELSE @,
                      !.t_last_spike = IF spike_ THEN t ELSE @,
                      !.gate = refractory, !.Vg = V,
                      !.order = y.order \o RefStages(o)]
           ELSE LET spike == V >= p.V_th
                IN [Stored(s, y) EXCEPT
                      !.V = V,
                      !.trace = RefInferenceTrace, !.spike = spike,
                      !.refractory = IF o.ref_var THEN (refractory \/ spike) ELSE @,
                      !.t_last_spike = IF spike THEN t ELSE @,
                      !.gate = refractory, !.Vg = V,
                      !.order = y.order \o RefStages(o)]
  IN spike_reset(integral(c, p, ci, s, t, XValue(x), dt))

\* LifRefLTC.update whose refractory window is one step longer than tau_ref.
LifRefLTC_update_wide_gate(c, p, o, ci, training, s, t, x, dt) ==
  LET spike_reset(y) ==
        LET refractory == (t - s.t_last_spike) <= o.tau_ref + dt
            V == IF refractory THEN s.V ELSE y.V
        IN IF training
           THEN LET spike == spk_fun(o.spk_fun, V - p.V_th)
                    spike_ == spike > 0
                IN [Stored(s, y) EXCEPT
                      !.V = V + Scaled(p.V_reset - V, spike),
                      !.trace = RefTrainingTrace(o), !.spike = spike,
                      !.refractory = IF o.ref_var THEN (refractory \/ spike_) ELSE @,
                      !.t_last_spike = IF spike_ THEN t ELSE @,
                      !.gate = refractory, !.Vg = V,
                      !.order = y.order \o RefStages(o)]
           ELSE LET spike == V >= p.V_th
                IN [Stored(s, y) EXCEPT
                      !.V = IF spike THEN p.V_reset ELSE V,
                      !.trace = RefInferenceTrace, !.spike = spike,
                      !.refractory = IF o.ref_var THEN (refractory \/ spike) ELSE @,
                      !.t_last_spike = IF spike THEN t ELSE @,
                      !.gate = refractory, !.Vg = V,
                      !.order = y.order \o RefStages(o)]
  IN spike_reset(integral(c, p, ci, s, t, XValue(x), dt))

LifRefLTC_update(c, p, o, ci, training, s, t, x, dt) ==
  LET spike_reset(y) ==
        LET refractory == (t - s.t_last_spike) <= o.tau_ref
            V == IF refractory THEN s.V ELSE y.V
        IN IF training
           THEN LET spike == spk_fun(o.spk_fun, V - p.V_th)
                    spike_ == spike > 0
                IN [Stored(s, y) EXCEPT
                      !.V = V + Scaled(p.V_reset - V, spike),
                      !.trace = RefTrainingTrace(o), !.spike = spike,
                      !.refractory = IF o.ref_var THEN (refractory \/ spike_) ELSE @,
                      !.t_last_spike = IF spike_ THEN t ELSE @,
                      !.gate = refractory, !.Vg = V,
                      !.order = y.order \o RefStages(o)]
           ELSE LET spike == V >= p.V_th
                IN [Stored(s, y) EXCEPT
                      !.V = IF spike THEN p.V_reset ELSE V,
                      !.trace = RefInferenceTrace, !.spike = spike,
                      !.refractory = IF o.ref_var THEN (refractory \/ spike) ELSE @,
                      !.t_last_spike = IF spike THEN t ELSE @,
                      !.gate = refractory, !.Vg = V,
                      !.order = y.order \o RefStages(o)]
  IN spike_reset(integral(c, p, ci, s, t, XValue(x), dt))

LifRef_update(c, p, o, ci, training, s, t, x, dt) ==
  LET x1 == XValue(x) + SumInputs(ci, s.V)
  IN [LifRefLTC_update(c, p, o, ci, training, s, t, Given(x1), dt) EXCEPT !.returns = "None",
      !.order = <<"cur_inputs">> \o @]

ExpIFLTC_update(c, p, o, ci, training, s, t, x, dt) ==
  LET spike_reset(y) ==
        LET V == y.V
        IN IF training
           THEN LET spike == spk_fun(o.spk_fun, V - p.V_th)
                IN [Stored(s, y) EXCEPT !.V = V + Scaled(p.V_reset - V, spike),
                                        !.trace = TrainingTrace(o), !.spike = spike]
           ELSE LET spike == V >= p.V_th
                IN [Stored(s, y) EXCEPT !.V = IF spike THEN p.V_reset ELSE V,
                                        !.trace = InferenceTrace, !.spike = spike]
  IN spike_reset(integral(c, p, ci, s, t, XValue(x), dt))

ExpIF_update(c, p, o, ci, training, s, t, x, dt) ==
  LET x1 == XValue(x) + SumInputs(ci, s.V)
  IN [ExpIFLTC_update(c, p, o, ci, training, s, t, Given(x1), dt) EXCEPT !.returns = "None",
      !.order = <<"cur_inputs">> \o @]

ExpIFRefLTC_update(c, p, o, ci, training, s, t, x, dt) ==
  LET spike_reset(y) ==
        LET refractory == (t - s.t_last_spike) <= o.tau_ref
            V == IF refractory THEN s.V ELSE y.V
        IN IF training
           THEN LET spike == spk_fun(o.spk_fun, V - p.V_th)
                    spike_ == spike > 0
                IN [Stored(s, y) EXCEPT
                      !.V = V + Scaled(p.V_reset - V, spike),
                      !.trace = RefTrainingTrace(o), !.spike = spike,
                      !.refractory = IF o.ref_var THEN (refractory \/ spike_) ELSE @,
                      !.t_last_spike = IF spike_ THEN t ELSE @,
                      !.gate = refractory, !.Vg = V,
                      !.order = y.order \o RefStages(o)]
           ELSE LET spike == V >= p.V_th
                IN [Stored(s, y) EXCEPT
                      !.V = IF spike THEN p.V_reset ELSE V,
                      !.trace = RefInferenceTrace, !.spike = spike,
                      !.refractory = IF o.ref_var THEN (refractory \/ spike) ELSE @,
                      !.t_last_spike = IF spike THEN t ELSE @,
                      !.gate = refractory, !.Vg = V,
                      !.order = y.order \o RefStages(o)]
  IN spike_reset(integral(c, p, ci, s, t, XValue(x), dt))

ExpIFRef_update(c, p, o, ci, training, s, t, x, dt) ==
  LET x1 == XValue(x) + SumInputs(ci, s.V)
  IN [ExpIFRefLTC_update(c, p, o, ci, training, s, t, Given(x1), dt) EXCEPT !.returns = "None",
      !.order = <<"cur_inputs">> \o @]

QuaIFLTC_update(c, p, o, ci, training, s, t, x, dt) ==
  LET spike_reset(y) ==
        LET V == y.V
        IN IF training
           THEN LET spike == spk_fun(o.spk_fun, V - p.V_th)
                IN [Stored(s, y) EXCEPT !.V = V + Scaled(p.V_reset - V, spike),
                                        !.trace = TrainingTrace(o), !.spike = spike]
           ELSE LET spike == V >= p.V_th
                IN [Stored(s, y) EXCEPT !.V = IF spike THEN p.V_reset ELSE V,
                                        !.trace = InferenceTrace, !.spike = spike]
  IN spike_reset(integral(c, p, ci, s, t, XValue(x), dt))

QuaIF_update(c, p, o, ci, training, s, t, x, dt) ==
  LET x1 == XValue(x) + SumInputs(ci, s.V)
  IN [QuaIFLTC_update(c, p, o, ci, training, s, t, Given(x1), dt) EXCEPT !.returns = "None",
      !.order = <<"cur_inputs">> \o @]

QuaIFRefLTC_update(c, p, o, ci, training, s, t, x, dt) ==
  LET spike_reset(y) ==
        LET refractory == (t - s.t_last_spike) <= o.tau_ref
            V == IF refractory THEN s.V ELSE y.V
        IN IF training
           THEN LET spike == spk_fun(o.spk_fun, V - p.V_th)
                    spike_ == spike > 0
                IN [Stored(s, y) EXCEPT
                      !.V = V + Scaled(p.V_reset - V, spike),
                      !.trace = RefTrainingTrace(o), !.spike = spike,
                      !.refractory = IF o.ref_var THEN (refractory \/ spike_) ELSE @,
                      !.t_last_spike = IF spike_ THEN t ELSE @,
                      !.gate = refractory, !.Vg = V,
                      !.order = y.order \o RefStages(o)]
           ELSE LET spike == V >= p.V_th
                IN [Stored(s, y) EXCEPT
                      !.V = IF spike THEN p.V_reset ELSE V,
                      !.trace = RefInferenceTrace, !.spike = spike,
                      !.refractory = IF o.ref_var THEN (refractory \/ spike) ELSE @,
                      !.t_last_spike = IF spike THEN t ELSE @,
                      !.gate = refractory, !.Vg = V,
                      !.order = y.order \o RefStages(o)]
  IN spike_reset(integral(c, p, ci, s, t, XValue(x), dt))

QuaIFRef_update(c, p, o, ci, training, s, t, x, dt) ==
  LET x1 == XValue(x) + SumInputs(ci, s.V)
  IN [QuaIFRefLTC_update(c, p, o, ci, training, s, t, Given(x1), dt) EXCEPT !.returns = "None",
      !.order = <<"cur_inputs">> \o @]

\* AdExIFLTC.update without the jump of w at a spike.
AdExIFLTC_update_no_jump(c, p, o, ci, training, s, t, x, dt) ==
  LET spike_reset(y) ==
        LET V == y.V
            spike == IF training THEN spk_fun(o.spk_fun, V - p.V_th) ELSE V >= p.V_th
        IN [Stored(s, y) EXCEPT
              !.V = IF training THEN V + Scaled(p.V_reset - V, spike)
                    ELSE IF spike THEN p.V_reset ELSE V,
              !.w = y.w,
              !.trace = IF training THEN TrainingTrace(o) ELSE InferenceTrace,
              !.spike = spike]
  IN spike_reset(integral(c, p, ci, s, t, XValue(x), dt))

AdExIFLTC_update(c, p, o, ci, training, s, t, x, dt) ==
  LET spike_reset(y) ==
        LET V == y.V
            w == y.w
        IN IF training
           THEN LET spike == spk_fun(o.spk_fun, V - p.V_th)
                IN [Stored(s, y) EXCEPT !.V = V + Scaled(p.V_reset - V, spike),
                                        !.w = w + Scaled(p.b, spike),
                                        !.trace = TrainingTrace(o), !.spike = spike]
           ELSE LET spike == V >= p.V_th
                IN [Stored(s, y) EXCEPT !.V = IF spike THEN p.V_reset ELSE V,
                                        !.w = IF spike THEN w + p.b ELSE w,
                                        !.trace = InferenceTrace, !.spike = spike]
  IN spike_reset(integral(c, p, ci, s, t, XValue(x), dt))

AdExIF_update(c, p, o, ci, training, s, t, x, dt) ==
  LET x1 == XValue(x) + SumInputs(ci, s.V)
  IN [AdExIFLTC_update(c, p, o, ci, training, s, t, Given(x1), dt) EXCEPT !.returns = "None",
      !.order = <<"cur_inputs">> \o @]

\* AdExIFRefLTC.update whose training branch leaves w without the jump.
AdExIFRefLTC_update_training_no_jump(c, p, o, ci, training, s, t, x, dt) ==
  LET spike_reset(y) ==
        LET w == y.w
            refractory == (t - s.t_last_spike) <= o.tau_ref
            V == IF refractory THEN s.V ELSE y.V
        IN IF training
           THEN LET spike == spk_fun(o.spk_fun, V - p.V_th)
                    spike_ == spike > 0
                IN [Stored(s, y) EXCEPT
                      !.V = V + Scaled(p.V_reset - V, spike),
                      !.w = w,
                      !.trace = RefTrainingTrace(o), !.spike = spike,
                      !.refractory = IF o.ref_var THEN (refractory \/ spike_) ELSE @,
                      !.t_last_spike = IF spike_ THEN t ELSE @,
                      !.gate = refractory, !.Vg = V,
                      !.order = y.order \o RefStages(o)]
           ELSE LET spike == V >= p.V_th
                IN [Stored(s, y) EXCEPT
                      !.V = IF spike THEN p.V_reset ELSE V,
                      !.w = IF spike THEN w + p.b ELSE w,
                      !.trace = RefInferenceTrace, !.spike = spike,
                      !.refractory = IF o.ref_var THEN (refractory \/ spike) ELSE @,
                      !.t_last_spike = IF spike THEN t ELSE @,
                      !.gate = refractory, !.Vg = V,
                      !.order = y.order \o RefStages(o)]
  IN spike_reset(integral(c, p, ci, s, t, XValue(x), dt))

\* AdExIFRefLTC.update whose gate holds w as well as V.
AdExIFRefLTC_update_frozen_w(c, p, o, ci, training, s, t, x, dt) ==
  LET spike_reset(y) ==
        LET refractory == (t - s.t_last_spike) <= o.tau_ref
            w == IF refractory THEN s.w ELSE y.w
            V == IF refractory THEN s.V ELSE y.V
        IN IF training
           THEN LET spike == spk_fun(o.spk_fun, V - p.V_th)
                    spike_ == spike > 0
                IN [Stored(s, y) EXCEPT
                      !.V = V + Scaled(p.V_reset - V, spike),
                      !.w = w + Scaled(p.b, spike),
                      !.trace = RefTrainingTrace(o), !.spike = spike,
                      !.refractory = IF o.ref_var THEN (refractory \/ spike_) ELSE @,
                      !.t_last_spike = IF spike_ THEN t ELSE @,
                      !.gate = refractory, !.Vg = V,
                      !.order = y.order \o RefStages(o)]
           ELSE LET spike == V >= p.V_th
                IN [Stored(s, y) EXCEPT
                      !.V = IF spike THEN p.V_reset ELSE V,
                      !.w = IF spike THEN w + p.b ELSE w,
                      !.trace = RefInferenceTrace, !.spike = spike,
                      !.refractory = IF o.ref_var THEN (refractory \/ spike) ELSE @,
                      !.t_last_spike = IF spike THEN t ELSE @,
                      !.gate = refractory, !.Vg = V,
                      !.order = y.order \o RefStages(o)]
  IN spike_reset(integral(c, p, ci, s, t, XValue(x), dt))

AdExIFRefLTC_update(c, p, o, ci, training, s, t, x, dt) ==
  LET spike_reset(y) ==
        LET w == y.w
            refractory == (t - s.t_last_spike) <= o.tau_ref
            V == IF refractory THEN s.V ELSE y.V
        IN IF training
           THEN LET spike == spk_fun(o.spk_fun, V - p.V_th)
                    spike_ == spike > 0
                IN [Stored(s, y) EXCEPT
                      !.V = V + Scaled(p.V_reset - V, spike),
                      !.w = w + Scaled(p.b, spike),
                      !.trace = RefTrainingTrace(o), !.spike = spike,
                      !.refractory = IF o.ref_var THEN (refractory \/ spike_) ELSE @,
                      !.t_last_spike = IF spike_ THEN t ELSE @,
                      !.gate = refractory, !.Vg = V,
                      !.order = y.order \o RefStages(o)]
           ELSE LET spike == V >= p.V_th
                IN [Stored(s, y) EXCEPT
                      !.V = IF spike THEN p.V_reset ELSE V,
                      !.w = IF spike THEN w + p.b ELSE w,
                      !.trace = RefInferenceTrace, !.spike = spike,
                      !.refractory = IF o.ref_var THEN (refractory \/ spike) ELSE @,
                      !.t_last_spike = IF spike THEN t ELSE @,
                      !.gate = refractory, !.Vg = V,
                      !.order = y.order \o RefStages(o)]
  IN spike_reset(integral(c, p, ci, s, t, XValue(x), dt))

AdExIFRef_update(c, p, o, ci, training, s, t, x, dt) ==
  LET x1 == XValue(x) + SumInputs(ci, s.V)
  IN [AdExIFRefLTC_update(c, p, o, ci, training, s, t, Given(x1), dt) EXCEPT !.returns = "None",
      !.order = <<"cur_inputs">> \o @]

AdQuaIFLTC_update(c, p, o, ci, training, s, t, x, dt) ==
  LET spike_reset(y) ==
        LET V == y.V
            w == y.w
        IN IF training
           THEN LET spike == spk_fun(o.spk_fun, V - p.V_th)
                IN [Stored(s, y) EXCEPT !.V = V + Scaled(p.V_reset - V, spike),
                                        !.w = w + Scaled(p.b, spike),
                                        !.trace = TrainingTrace(o), !.spike = spike]
           ELSE LET spike == V >= p.V_th
                IN [Stored(s, y) EXCEPT !.V = IF spike THEN p.V_reset ELSE V,
                                        !.w = IF spike THEN w + p.b ELSE w,
                                        !.trace = InferenceTrace, !.spike = spike]
  IN spike_reset(integral(c, p, ci, s, t, XValue(x), dt))

AdQuaIF_update(c, p, o, ci, training, s, t, x, dt) ==
  LET x1 == XValue(x) + SumInputs(ci, s.V)
  IN [AdQuaIFLTC_update(c, p, o, ci, training, s, t, Given(x1), dt) EXCEPT !.returns = "None",
      !.order = <<"cur_inputs">> \o @]

AdQuaIFRefLTC_update(c, p, o, ci, training, s, t, x, dt) ==
  LET spike_reset(y) ==
        LET w == y.w
            refractory == (t - s.t_last_spike) <= o.tau_ref
            V == IF refractory THEN s.V ELSE y.V
        IN IF training
           THEN LET spike == spk_fun(o.spk_fun, V - p.V_th)
                    spike_ == spike > 0
                IN [Stored(s, y) EXCEPT
                      !.V = V + Scaled(p.V_reset - V, spike),
                      !.w = w + Scaled(p.b, spike),
                      !.trace = RefTrainingTrace(o), !.spike = spike,
                      !.refractory = IF o.ref_var THEN (refractory \/ spike_) ELSE @,
                      !.t_last_spike = IF spike_ THEN t ELSE @,
                      !.gate = refractory, !.Vg = V,
                      !.order = y.order \o RefStages(o)]
           ELSE LET spike == V >= p.V_th
                IN [Stored(s, y) EXCEPT
                      !.V = IF spike THEN p.V_reset ELSE V,
                      !.w = IF spike THEN w + p.b ELSE w,
                      !.trace = RefInferenceTrace, !.spike = spike,
                      !.refractory = IF o.ref_var THEN (refractory \/ spike) ELSE @,
                      !.t_last_spike = IF spike THEN t ELSE @,
                      !.gate = refractory, !.Vg = V,
                      !.order = y.order \o RefStages(o)]
  IN spike_reset(integral(c, p, ci, s, t, XValue(x), dt))

AdQuaIFRef_update(c, p, o, ci, training, s, t, x, dt) ==
  LET x1 == XValue(x) + SumInputs(ci, s.V)
  IN [AdQuaIFRefLTC_update(c, p, o, ci, training, s, t, Given(x1), dt) EXCEPT !.returns = "None",
      !.order = <<"cur_inputs">> \o @]

\* GifLTC.update that stores the integrated threshold at a spike as it is.
GifLTC_update_no_clamp(c, p, o, ci, training, s, t, x, dt) ==
  LET spike_reset(y) ==
        LET I1 == y.I1
            I2 == y.I2
            V_th == y.V_th
            V == y.V
        IN IF training
           THEN LET spike == spk_fun(o.spk_fun, V - s.V_th)
                    reset_th == Scaled(spk_fun(o.spk_fun, p.V_th_reset - V_th), spike)
                IN [Stored(s, y) EXCEPT
                      !.V = V + Scaled(p.V_reset - V, spike),
                      !.I1 = I1 + Scaled(p.R1 * I1 + p.A1 - I1, spike),
                      !.I2 = I2 + Scaled(p.R2 * I2 + p.A2 - I2, spike),
                      !.V_th = V_th + Scaled(p.V_th_reset - V_th, reset_th),
                      !.trace = TrainingTrace(o), !.spike = spike]
           ELSE LET spike == s.V_th <= V
                IN [Stored(s, y) EXCEPT
                      !.V = IF spike THEN p.V_reset ELSE V,
                      !.I1 = IF spike THEN p.R1 * I1 + p.A1 ELSE I1,
                      !.I2 = IF spike THEN p.R2 * I2 + p.A2 ELSE I2,
                      !.V_th = V_th,
                      !.trace = InferenceTrace, !.spike = spike]
  IN spike_reset(integral(c, p, ci, s, t, XValue(x), dt))

\* self.V_th is the stored threshold variable; the local V_th is the
\* integrated one.
GifLTC_update(c, p, o, ci, training, s, t, x, dt) ==
  LET spike_reset(y) ==
        LET I1 == y.I1
            I2 == y.I2
            V_th == y.V_th
            V == y.V
        IN IF training
           THEN LET spike == spk_fun(o.spk_fun, V - s.V_th)
                    reset_th == Scaled(spk_fun(o.spk_fun, p.V_th_reset - V_th), spike)
                IN [Stored(s, y) EXCEPT
                      !.V = V + Scaled(p.V_reset - V, spike),
                      !.I1 = I1 + Scaled(p.R1 * I1 + p.A1 - I1, spike),
                      !.I2 = I2 + Scaled(p.R2 * I2 + p.A2 - I2, spike),
                      !.V_th = V_th + Scaled(p.V_th_reset - V_th, reset_th),
                      !.trace = TrainingTrace(o), !.spike = spike]
           ELSE LET spike == s.V_th <= V
                IN [Stored(s, y) EXCEPT
                      !.V = IF spike THEN p.V_reset ELSE V,
                      !.I1 = IF spike THEN p.R1 * I1 + p.A1 ELSE I1,
                      !.I2 = IF spike THEN p.R2 * I2 + p.A2 ELSE I2,
                      !.V_th = IF spike THEN Max(p.V_th_reset, V_th) ELSE V_th,
                      !.trace = InferenceTrace, !.spike = spike]
  IN spike_reset(integral(c, p, ci, s, t, XValue(x), dt))

Gif_update(c, p, o, ci, training, s, t, x, dt) ==
  LET x1 == XValue(x) + SumInputs(ci, s.V)
  IN [GifLTC_update(c, p, o, ci, training, s, t, Given(x1), dt) EXCEPT !.returns = "None",
      !.order = <<"cur_inputs">> \o @]

\* GifRefLTC.update whose spike leaves the internal currents as integrated.
GifRefLTC_update_currents_kept(c, p, o, ci, training, s, t, x, dt) ==
  LET spike_reset(y) ==
        LET I1 == y.I1
            I2 == y.I2
            V_th == y.V_th
            refractory == (t - s.t_last_spike) <= o.tau_ref
            V == IF refractory THEN s.V ELSE y.V
        IN IF training
           THEN LET spike == spk_fun(o.spk_fun, V - s.V_th)
                    reset_th == Scaled(spk_fun(o.spk_fun, p.V_th_reset - V_th), spike)
                    spike_ == spike > 0
                IN [Stored(s, y) EXCEPT
                      !.V = V + Scaled(p.V_reset - V, spike),
                      !.I1 = I1,
                      !.I2 = I2,
                      !.V_th = V_th + Scaled(p.V_th_reset - V_th, reset_th),
                      !.trace = RefTrainingTrace(o), !.spike = spike,
                      !.refractory = IF o.ref_var THEN (refractory \/ spike_) ELSE @,
                      !.t_last_spike = IF spike_ THEN t ELSE @,
                      !.gate = refractory, !.Vg = V,
                      !.order = y.order \o RefStages(o)]
           ELSE LET spike == V >= s.V_th
                IN [Stored(s, y) EXCEPT
                      !.V = IF spike THEN p.V_reset ELSE V,
                      !.I1 = I1,
                      !.I2 = I2,
                      !.V_th = IF spike THEN Max(p.V_th_reset, V_th) ELSE V_th,
                      !.trace = RefInferenceTrace, !.spike = spike,
                      !.refractory = IF o.ref_var THEN (refractory \/ spike) ELSE @,
                      !.t_last_spike = IF spike THEN t ELSE @,
                      !.gate = refractory, !.Vg = V,
                      !.order = y.order \o RefStages(o)]
  IN spike_reset(integral(c, p, ci, s, t, XValue(x), dt))

GifRefLTC_update(c, p, o, ci, training, s, t, x, dt) ==
  LET spike_reset(y) ==
        LET I1 == y.I1
            I2 == y.I2
            V_th == y.V_th
            refractory == (t - s.t_last_spike) <= o.tau_ref
            V == IF refractory THEN s.V ELSE y.V
        IN IF training
           THEN LET spike == spk_fun(o.spk_fun, V - s.V_th)
                    reset_th == Scaled(spk_fun(o.spk_fun, p.V_th_reset - V_th), spike)
                    spike_ == spike > 0
                IN [Stored(s, y) EXCEPT
                      !.V = V + Scaled(p.V_reset - V, spike),
                      !.I1 = I1 + Scaled(p.R1 * I1 + p.A1 - I1, spike),
                      !.I2 = I2 + Scaled(p.R2 * I2 + p.A2 - I2, spike),
                      !.V_th = V_th + Scaled(p.V_th_reset - V_th, reset_th),
                      !.trace = RefTrainingTrace(o), !.spike = spike,
                      !.refractory = IF o.ref_var THEN (refractory \/ spike_) ELSE @,
                      !.t_last_spike = IF spike_ THEN t ELSE @,
                      !.gate = refractory, !.Vg = V,
                      !.order = y.order \o RefStages(o)]
           ELSE LET spike == V >= s.V_th
                IN [Stored(s, y) EXCEPT
                      !.V = IF spike THEN p.V_reset ELSE V,
                      !.I1 = IF spike THEN p.R1 * I1 + p.A1 ELSE I1,
                      !.I2 = IF spike THEN p.R2 * I2 + p.A2 ELSE I2,
                      !.V_th = IF spike THEN Max(p.V_th_reset, V_th) ELSE V_th,
                      !.trace = RefInferenceTrace, !.spike = spike,
                      !.refractory = IF o.ref_var THEN (refractory \/ spike) ELSE @,
                      !.t_last_spike = IF spike THEN t ELSE @,
                      !.gate = refractory, !.Vg = V,
                      !.order = y.order \o RefStages(o)]
  IN spike_reset(integral(c, p, ci, s, t, XValue(x), dt))

GifRef_update(c, p, o, ci, training, s, t, x, dt) ==
  LET x1 == XValue(x) + SumInputs(ci, s.V)
  IN [GifRefLTC_update(c, p, o, ci, training, s, t, Given(x1), dt) EXCEPT !.returns = "None",
      !.order = <<"cur_inputs">> \o @]

IzhikevichLTC_update(c, p, o, ci, training, s, t, x, dt) ==
  LET spike_reset(y) ==
        LET V == y.V
            u == y.u
        IN IF training
           THEN LET spike == spk_fun(o.spk_fun, V - p.V_th)
                IN [Stored(s, y) EXCEPT !.V = V + Scaled(p.c - p.V_th, spike),
                                        !.u = u + Scaled(p.d, spike),
                                        !.trace = TrainingTrace(o), !.spike = spike]
           ELSE LET spike == V >= p.V_th
                IN [Stored(s, y) EXCEPT !.V = IF spike THEN p.c ELSE V,
                                        !.u = IF spike THEN u + p.d ELSE u,
                                        !.trace = InferenceTrace, !.spike = spike]
  IN spike_reset(integral(c, p, ci, s, t, XValue(x), dt))

Izhikevich_update(c, p, o, ci, training, s, t, x, dt) ==
  LET x1 == XValue(x) + SumInputs(ci, s.V)
  IN [IzhikevichLTC_update(c, p, o, ci, training, s, t, Given(x1), dt) EXCEPT !.returns = "None",
      !.order = <<"cur_inputs">> \o @]

IzhikevichRefLTC_update(c, p, o, ci, training, s, t, x, dt) ==
  LET spike_reset(y) ==
        LET u == y.u
            refractory == (t - s.t_last_spike) <= o.tau_ref
            V == IF refractory THEN s.V ELSE y.V
        IN IF training
           THEN LET spike == spk_fun(o.spk_fun, V - p.V_th)
                    spike_ == spike > 0
                IN [Stored(s, y) EXCEPT
                      !.V = V + Scaled(p.c - p.V_th, spike),
                      !.u = u + Scaled(p.d, spike),
                      !.trace = RefTrainingTrace(o), !.spike = spike,
                      !.refractory = IF o.ref_var THEN (refractory \/ spike_) ELSE @,
                      !.t_last_spike = IF spike_ THEN t ELSE @,
                      !.gate = refractory, !.Vg = V,
                      !.order = y.order \o RefStages(o)]
           ELSE LET spike == V >= p.V_th
                IN [Stored(s, y) EXCEPT
                      !.V = IF spike THEN p.c ELSE V,
                      !.u = IF spike THEN u + p.d ELSE u,
                      !.trace = RefInferenceTrace, !.spike = spike,
                      !.refractory = IF o.ref_var THEN (refractory \/ spike) ELSE @,
                      !.t_last_spike = IF spike THEN t ELSE @,
                      !.gate = refractory, !.Vg = V,
                      !.order = y.order \o RefStages(o)]
  IN spike_reset(integral(c, p, ci, s, t, XValue(x), dt))

IzhikevichRef_update(c, p, o, ci, training, s, t, x, dt) ==
  LET x1 == XValue(x) + SumInputs(ci, s.V)
  IN [IzhikevichRefLTC_update(c, p, o, ci, training, s, t, Given(x1), dt) EXCEPT !.returns = "None",
      !.order = <<"cur_inputs">> \o @]

\* The class's own update method.
update(c, p, o, ci, training, s, t, x, dt) ==
  LET f == c.family
  IN CASE f = "IF" -> IF c.ltc THEN IFLTC_update(c, p, o, ci, training, s, t, x, dt)
                      ELSE IF_update(c, p, o, ci, training, s, t, x, dt)
       [] f = "Lif" ->
            IF c.ref THEN (IF c.ltc THEN LifRefLTC_update(c, p, o, ci, training, s, t, x, dt)
                           ELSE LifRef_update(c, p, o, ci, training, s, t, x, dt))
            ELSE (IF c.ltc THEN LifLTC_update(c, p, o, ci, training, s, t, x, dt)
                  ELSE Lif_update(c, p, o, ci, training, s, t, x, dt))
       [] f = "ExpIF" ->
            IF c.ref THEN (IF c.ltc THEN ExpIFRefLTC_update(c, p, o, ci, training, s, t, x, dt)
                           ELSE ExpIFRef_update(c, p, o, ci, training, s, t, x, dt))
            ELSE (IF c.ltc THEN ExpIFLTC_update(c, p, o, ci, training, s, t, x, dt)
                  ELSE ExpIF_update(c, p, o, ci, training, s, t, x, dt))
       [] f = "QuaIF" ->
            IF c.ref THEN (IF c.ltc THEN QuaIFRefLTC_update(c, p, o, ci, training, s, t, x, dt)
                           ELSE QuaIFRef_update(c, p, o, ci, training, s, t, x, dt))
            ELSE (IF c.ltc THEN QuaIFLTC_update(c, p, o, ci, training, s, t, x, dt)
                  ELSE QuaIF_update(c, p, o, ci, training, s, t, x, dt))
       [] f = "AdExIF" ->
            IF c.ref THEN (IF c.ltc THEN AdExIFRefLTC_update(c, p, o, ci, training, s, t, x, dt)
                           ELSE AdExIFRef_update(c, p, o, ci, training, s, t, x, dt))
            ELSE (IF c.ltc THEN AdExIFLTC_update(c, p, o, ci, training, s, t, x, dt)
                  ELSE AdExIF_update(c, p, o, ci, training, s, t, x, dt))
       [] f = "AdQuaIF" ->
            IF c.ref THEN (IF c.ltc THEN AdQuaIFRefLTC_update(c, p, o, ci, training, s, t, x, dt)
                           ELSE AdQuaIFRef_update(c, p, o, ci, training, s, t, x, dt))
            ELSE (IF c.ltc THEN AdQuaIFLTC_update(c, p, o, ci, training, s, t, x, dt)
                  ELSE AdQuaIF_update(c, p, o, ci, training, s, t, x, dt))
       [] f = "Gif" ->
            IF c.ref THEN (IF c.ltc THEN GifRefLTC_update(c, p, o, ci, training, s, t, x, dt)
                           ELSE GifRef_update(c, p, o, ci, training, s, t, x, dt))
            ELSE (IF c.ltc THEN GifLTC_update(c, p, o, ci, training, s, t, x, dt)
                  ELSE Gif_update(c, p, o, ci, training, s, t, x, dt))
       [] f = "Izhikevich" ->
            IF c.ref THEN (IF c.ltc THEN IzhikevichRefLTC_update(c, p, o, ci, training, s, t, x, dt)
                           ELSE IzhikevichRef_update(c, p, o, ci, training, s, t, x, dt))
            ELSE (IF c.ltc THEN IzhikevichLTC_update(c, p, o, ci, training, s, t, x, dt)
                  ELSE Izhikevich_update(c, p, o, ci, training, s, t, x, dt))

\* ------------------------------------------------------------ initialization
\* A bm.Mode: NonBatchingMode, or TrainingMode with its batch_size.
Modes == {[name |-> "NonBatchingMode", batch_size |-> 0],
          [name |-> "TrainingMode", batch_size |-> 1]}

IsTraining(m) == m.name = "TrainingMode"

\* The batch size init_variable takes from a mode (0: no batch dimension).
ModeBatch(m) == IF IsTraining(m) THEN m.batch_size ELSE 0

\* reset_state's batch_size arguments: None (0) or a size.
BatchArgs == 0..MaxBatch

\* (batch_size?, *population_shape)
VarShape(batch) == IF batch = 0 THEN <<PopSize>> ELSE <<batch, PopSize>>

\* An initializer called on a shape: a constant fill (ZeroInit, OneInit(c)) or
\* a callable whose output depends on the element's position.
InitOut(kind, base, shape) ==
  Tensor(shape,
         [i \in Idx(shape) |->
            IF kind = "const" THEN base
            ELSE base + 18 * (((IF Len(shape) = 1 THEN i[1] ELSE i[1] + i[2]) + 1) % 2)])

\* self.init_variable(initializer, batch_size)
init_variable(kind, base, batch) == InitOut(kind, base, VarShape(batch))

\* value broadcasts to shape exactly
Broadcasts(vshape, shape) ==
  \/ vshape = shape
  \/ Len(vshape) = 1 /\ Len(shape) = 2 /\ vshape[1] = shape[2]
  \/ Len(vshape) = 2 /\ Len(shape) = 2 /\ vshape[1] = 1 /\ vshape[2] = shape[2]

\* OneInit(value)(shape) for an array value
OneInitArray(value, shape) ==
  Tensor(shape,
         [i \in Idx(shape) |->
            IF value.shape = shape THEN value.val[i]
            ELSE IF Len(value.shape) = 1 THEN value.val[<<i[2]>>]
            ELSE value.val[<<1, i[2]>>]])

\* partial(bm.zeros, dtype=self.spk_type): bool, or float in a training mode
SpikeZero(training) == IF training THEN 0 ELSE FALSE

NoInit == [kind |-> "None", value |-> NoVar]

\* The attributes reset_state (re)creates; ok is FALSE when it raises.
Vars(vV, vw, vu, vI1, vI2, vVth, vspike, vtls, vrefr, vui, ok) ==
  [V |-> vV, w |-> vw, u |-> vu, I1 |-> vI1, I2 |-> vI2, V_th |-> vVth,
   spike |-> vspike, t_last_spike |-> vtls, refractory |-> vrefr,
   u_initializer |-> vui, ok |-> ok]

\* IFLTC.reset_state
IFLTC_reset_state(cur, p, o, training, batch) ==
  [cur EXCEPT !.V = init_variable(o.V_initializer, p.V0, batch)]

\* LifLTC.reset_state; ExpIFLTC.reset_state and QuaIFLTC.reset_state are the same
LifLTC_reset_state(cur, p, o, training, batch) ==
  [cur EXCEPT !.V = init_variable(o.V_initializer, p.V0, batch),
              !.spike = Fill(VarShape(batch), SpikeZero(training))]

\* AdExIFLTC.reset_state; AdQuaIFLTC.reset_state is the same
AdExIFLTC_reset_state(cur, p, o, training, batch) ==
  [cur EXCEPT !.V = init_variable(o.V_initializer, p.V0, batch),
              !.w = init_variable("const", 0, batch),
              !.spike = Fill(VarShape(batch), SpikeZero(training))]

GifLTC_reset_state(cur, p, o, training, batch) ==
  [cur EXCEPT !.V = init_variable(o.V_initializer, p.V0, batch),
              !.I1 = init_variable("const", 0, batch),
              !.I2 = init_variable("const", 0, batch),
              !.V_th = init_variable("const", p.V_th_inf, batch),
              !.spike = Fill(VarShape(batch), SpikeZero(training))]

\* u_initializer = OneInit(self.b * self.V) if self._u_initializer is None
\* else self._u_initializer; the initializer is then kept in _u_initializer.
IzhikevichLTC_reset_state(cur, p, o, training, batch) ==
  LET newV == init_variable(o.V_initializer, p.V0, batch)
      u_initializer ==
        IF cur.u_initializer.kind = "None"
        THEN [kind |-> "OneInit",
              value |-> Tensor(newV.shape, [i \in Idx(newV.shape) |-> p.b * newV.val[i]])]
        ELSE cur.u_initializer
      shape == VarShape(batch)
  IN IF u_initializer.kind = "ZeroInit"
     THEN [cur EXCEPT !.V = newV, !.u_initializer = u_initializer,
                      !.u = init_variable("const", 0, batch),
                      !.spike = Fill(shape, SpikeZero(training))]
     ELSE IF Broadcasts(u_initializer.value.shape, shape)
     THEN [cur EXCEPT !.V = newV, !.u_initializer = u_initializer,
                      !.u = OneInitArray(u_initializer.value, shape),
                      !.spike = Fill(shape, SpikeZero(training))]
     ELSE [cur EXCEPT !.V = newV, !.u_initializer = u_initializer, !.ok = FALSE]

\* The non-Ref class's reset_state.
BaseReset(c, cur, p, o, training, batch) ==
  CASE c.family = "IF" -> IFLTC_reset_state(cur, p, o, training, batch)
    [] c.family \in {"Lif", "ExpIF", "QuaIF"} -> LifLTC_reset_state(cur, p, o, training, batch)
    [] c.family \in {"AdExIF", "AdQuaIF"} -> AdExIFLTC_reset_state(cur, p, o, training, batch)
    [] c.family = "Gif" -> GifLTC_reset_state(cur, p, o, training, batch)
    [] c.family = "Izhikevich" -> IzhikevichLTC_reset_state(cur, p, o, training, batch)

\* the value t_last_spike is filled with
FillValue(family) ==
  IF family \in {"AdExIF", "AdQuaIF", "Gif"} THEN Sentinel8 ELSE Sentinel7

\* LifRefLTC.reset_state and the other Ref classes': super().reset_state, then
\* t_last_spike and, with ref_var, refractory.
RefLTC_reset_state(c, cur, p, o, training, batch) ==
  LET base == BaseReset(c, cur, p, o, training, batch)
  IN IF ~base.ok THEN base
     ELSE [base EXCEPT
             !.t_last_spike = Fill(VarShape(batch), FillValue(c.family)),
             !.refractory = IF o.ref_var THEN Fill(VarShape(batch), FALSE) ELSE @]

\* The class's own reset_state (a simplified class inherits its LTC class's).
reset_state(c, cur, p, o, training, batch) ==
  IF c.ref THEN RefLTC_reset_state(c, cur, p, o, training, batch)
  ELSE BaseReset(c, cur, p, o, training, batch)

\* --------------------------------------------------------------- return_info
\* IFLTC.return_info (inherited by IF): self.V
IFLTC_return_info(v) == v.V

\* LifLTC.return_info, and the same method in ExpIFLTC, AdExIFLTC, QuaIFLTC,
\* AdQuaIFLTC, GifLTC and IzhikevichLTC, inherited by the other classes of the
\* family: self.spike
LifLTC_return_info(v) == v.spike

return_info(c, v) ==
  IF c.family = "IF" THEN IFLTC_return_info(v) ELSE LifLTC_return_info(v)

\* --------------------------------------------------------------------- state
VARIABLES
  cls,            \* the instance's class: [family, ref, ltc]
  mode,           \* self.mode
  par,            \* the neuron parameters (self.V_rest, self.V_th, ...)
  opt,            \* spk_fun, detach_spk, tau_ref, ref_var and the initializers
  cur_inputs,     \* self.cur_inputs
  t, dt,          \* the shared clock: share.load('t'), share.load('dt')
  V, w, u, I1, I2, V_th, spike, t_last_spike, refractory,   \* state variables
  u_initializer,  \* self._u_initializer
  ret,            \* what the last update call returned (NoVar: None)
  info,           \* what return_info handed to the driver at this tick, if called
  last,           \* the last operation and, for an update, its locals
  hist,           \* history: see NoHist
  stepped         \* the driver has called update at the current tick

params == <<cls, mode, par, opt, cur_inputs>>

statevars == <<V, w, u, I1, I2, V_th, spike, t_last_spike, refractory>>

\* The other components of the library, each in a scenario of its own.
VARIABLES
  activation,     \* activations.get: the argument of the call
  outcome,        \* activations.get: what the call returned or raised
  ncalls,         \* activations.get: calls made so far
  mg_args,        \* MgBlock: the constructor's arguments
  membrane_var,   \* MgBlock: self.membrane_var
  master,         \* MgBlock: self.master, with its post group's attributes
  mg,             \* MgBlock: self.E, self.cc_Mg, self.alpha, self.beta
  raised,         \* MgBlock: the exception register_master ended with, if any
  model,          \* DSRunner: the input group that is run
  duration,       \* DSRunner: the argument of run
  run_i,          \* DSRunner: steps taken by run
  mon             \* DSRunner: runner.mon['spike']

\* The value of a component's variables in a scenario it is not part of.
NotBuilt == "not built"

neuronvars == <<cls, mode, par, opt, cur_inputs, t, dt, V, w, u, I1, I2, V_th, spike,
                t_last_spike, refractory, u_initializer, ret, info, last, hist, stepped>>

getvars == <<activation, outcome, ncalls>>

mgvars == <<mg_args, membrane_var, master, mg, raised>>

runvars == <<model, duration, run_i, mon>>

othervars == <<getvars, mgvars, runvars>>

vars == <<neuronvars, othervars>>

NeuronNotBuilt ==
  /\ cls = NotBuilt /\ mode = NotBuilt /\ par = NotBuilt /\ opt = NotBuilt
  /\ cur_inputs = NotBuilt /\ t = NotBuilt /\ dt = NotBuilt
  /\ V = NotBuilt /\ w = NotBuilt /\ u = NotBuilt /\ I1 = NotBuilt /\ I2 = NotBuilt
  /\ V_th = NotBuilt /\ spike = NotBuilt /\ t_last_spike = NotBuilt
  /\ refractory = NotBuilt /\ u_initializer = NotBuilt /\ ret = NotBuilt
  /\ info = NotBuilt /\ last = NotBuilt /\ hist = NotBuilt /\ stepped = NotBuilt

GetNotBuilt == activation = NotBuilt /\ outcome = NotBuilt /\ ncalls = NotBuilt

MgNotBuilt ==
  /\ mg_args = NotBuilt /\ membrane_var = NotBuilt /\ master = NotBuilt
  /\ mg = NotBuilt /\ raised = NotBuilt

RunNotBuilt == model = NotBuilt /\ duration = NotBuilt /\ run_i = NotBuilt /\ mon = NotBuilt

\* The attributes as reset_state finds them.
Current ==
  Vars(V, w, u, I1, I2, V_th, spike, t_last_spike, refractory, u_initializer, TRUE)

\* Before any reset_state: no state variable exists.
Blank(o) ==
  Vars(NoVar, NoVar, NoVar, NoVar, NoVar, NoVar, NoVar, NoVar, NoVar,
       IF o.u_initializer = "None" THEN NoInit ELSE [kind |-> "ZeroInit", value |-> NoVar],
       TRUE)

NoStep == [op |-> "init", ok |-> TRUE, batch |-> 0, x |-> Given(0), t |-> 0,
           pre |-> <<>>, res |-> <<>>]

\* History kept since the last reset_state.  held: for a Ref class, each
\* neuron's V as stored before the update of its most recent spike.  V0, n: for
\* the IF family, the V from which the last n updates ran without an argument.
NoHist == [held |-> <<>>, V0 |-> <<>>, n |-> 0]

HistAt(c, v) == [NoHist EXCEPT !.V0 = IF c.family = "IF" THEN v.val ELSE <<>>]

\* __init__: the parameters are set and, with init_var, reset_state(self.mode)
\* is called.
Init ==
  \E c \in Classes, m \in Modes :
    \E su \in Setups(c, IsTraining(m)) :
      LET p == DefaultPar(c.family)
          o == su.o
          ci == su.ci
          made == IF o.init_var
                  THEN reset_state(c, Blank(o), p, o, IsTraining(m), ModeBatch(m))
                  ELSE Blank(o)
      IN /\ cls = c /\ mode = m /\ par = p /\ opt = o /\ cur_inputs = ci
         /\ t = 0 /\ dt = 1
         /\ V = made.V /\ w = made.w /\ u = made.u /\ I1 = made.I1 /\ I2 = made.I2
         /\ V_th = made.V_th /\ spike = made.spike
         /\ t_last_spike = made.t_last_spike /\ refractory = made.refractory
         /\ u_initializer = made.u_initializer
         /\ ret = NoVar
         /\ info = NoVar
         /\ last = NoStep
         /\ hist = HistAt(c, made.V)
         /\ stepped = FALSE
         /\ GetNotBuilt /\ MgNotBuilt /\ RunNotBuilt

\* reset_state that also clears the refractory period.
ResetState_clearing_tau_ref(batch) ==
  /\ ~stepped
  /\ LET made == reset_state(cls, Current, par, opt, IsTraining(mode), batch)
     IN /\ V' = made.V /\ w' = made.w /\ u' = made.u /\ I1' = made.I1 /\ I2' = made.I2
        /\ V_th' = made.V_th /\ spike' = made.spike
        /\ t_last_spike' = made.t_last_spike /\ refractory' = made.refractory
        /\ u_initializer' = made.u_initializer
        /\ last' = [NoStep EXCEPT !.op = "reset", !.ok = made.ok, !.batch = batch, !.t = t]
        /\ hist' = HistAt(cls, made.V)
  /\ opt' = [opt EXCEPT !.tau_ref = 0]
  /\ UNCHANGED othervars
  /\ UNCHANGED <<cls, mode, par, cur_inputs, t, dt, ret, info, stepped>>

\* reset_state(batch_size), called between the driver's steps
ResetState(batch) ==
  /\ ~stepped
  /\ LET made == reset_state(cls, Current, par, opt, IsTraining(mode), batch)
     IN /\ V' = made.V /\ w' = made.w /\ u' = made.u /\ I1' = made.I1 /\ I2' = made.I2
        /\ V_th' = made.V_th /\ spike' = made.spike
        /\ t_last_spike' = made.t_last_spike /\ refractory' = made.refractory
        /\ u_initializer' = made.u_initializer
        /\ last' = [NoStep EXCEPT !.op = "reset", !.ok = made.ok, !.batch = batch, !.t = t]
        /\ hist' = HistAt(cls, made.V)
  /\ UNCHANGED othervars
  /\ UNCHANGED <<params, t, dt, ret, info, stepped>>

\* The state variables the class has.
HasVar(c, o) ==
  [V |-> TRUE,
   w |-> c.family \in {"AdExIF", "AdQuaIF"},
   u |-> c.family = "Izhikevich",
   I1 |-> c.family = "Gif", I2 |-> c.family = "Gif", V_th |-> c.family = "Gif",
   spike |-> c.family # "IF",
   t_last_spike |-> c.ref,
   refractory |-> c.ref /\ o.ref_var]

\* update can run: every variable exists and all have V's shape (otherwise it
\* raises on a missing attribute or a shape mismatch).
CanUpdate ==
  LET h == HasVar(cls, opt)
      okv(present, v) == present => (v.present /\ v.shape = V.shape)
  IN /\ V.present
     /\ okv(h.w, w) /\ okv(h.u, u) /\ okv(h.I1, I1) /\ okv(h.I2, I2)
     /\ okv(h.V_th, V_th) /\ okv(h.spike, spike)
     /\ okv(h.t_last_spike, t_last_spike) /\ okv(h.refractory, refractory)

\* One neuron's stored state.
Elem(i) ==
  LET h == HasVar(cls, opt)
  IN [V |-> V.val[i],
      w |-> IF h.w THEN w.val[i] ELSE 0,
      u |-> IF h.u THEN u.val[i] ELSE 0,
      I1 |-> IF h.I1 THEN I1.val[i] ELSE 0,
      I2 |-> IF h.I2 THEN I2.val[i] ELSE 0,
      V_th |-> IF h.V_th THEN V_th.val[i] ELSE 0,
      spike |-> IF h.spike THEN spike.val[i] ELSE FALSE,
      t_last_spike |-> IF h.t_last_spike THEN t_last_spike.val[i] ELSE 0,
      refractory |-> IF h.refractory THEN refractory.val[i] ELSE FALSE]

Abs(a) == IF a < 0 THEN -a ELSE a

\* The neuron spiked in the update whose result is r (spike_ in a training mode).
Spiked(r) ==
  /\ cls.family # "IF"
  /\ IF IsTraining(mode) THEN r.spike > 0 ELSE r.spike

\* update(x), called by the driver once per tick
Update(x) ==
  /\ ~stepped
  /\ CanUpdate
  /\ \A i \in Idx(V.shape) : Abs(V.val[i]) <= MaxAbsV
  /\ LET h == HasVar(cls, opt)
         shape == V.shape
         commit(pre, res) ==
           LET any == CHOOSE i \in Idx(shape) : TRUE
               put(old, present, f(_)) ==
                 IF present THEN Tensor(shape, [i \in Idx(shape) |-> f(res[i])]) ELSE old
               gV(r) == r.V
               gw(r) == r.w
               gu(r) == r.u
               gI1(r) == r.I1
               gI2(r) == r.I2
               gVth(r) == r.V_th
               gspike(r) == r.spike
               gtls(r) == r.t_last_spike
               grefr(r) == r.refractory
           IN /\ V' = put(V, TRUE, gV)
              /\ w' = put(w, h.w, gw)
              /\ u' = put(u, h.u, gu)
              /\ I1' = put(I1, h.I1, gI1)
              /\ I2' = put(I2, h.I2, gI2)
              /\ V_th' = put(V_th, h.V_th, gVth)
              /\ spike' = put(spike, h.spike, gspike)
              /\ t_last_spike' = put(t_last_spike, h.t_last_spike, gtls)
              /\ refractory' = put(refractory, h.refractory, grefr)
              /\ ret' = CASE res[any].returns = "spike" -> put(NoVar, TRUE, gspike)
                          [] res[any].returns = "V" -> put(NoVar, TRUE, gV)
                          [] OTHER -> NoVar
              /\ last' = [op |-> "update", ok |-> TRUE, batch |-> 0, x |-> x, t |-> t,
                          pre |-> pre, res |-> res]
              /\ hist' = [held |-> IF cls.ref
                                   THEN [i \in Idx(shape) |->
                                           IF Spiked(res[i]) \/ DOMAIN hist.held # Idx(shape)
                                           THEN pre[i].V ELSE hist.held[i]]
                                   ELSE <<>>,
                          V0 |-> IF cls.family # "IF" THEN <<>>
                                 ELSE IF x.given THEN [i \in Idx(shape) |-> res[i].V]
                                 ELSE hist.V0,
                          n |-> IF cls.family # "IF" \/ x.given THEN 0 ELSE hist.n + 1]
     IN commit([i \in Idx(shape) |-> Elem(i)],
               [i \in Idx(shape) |->
                  update(cls, par, opt, cur_inputs, IsTraining(mode), Elem(i), t, x, dt)])
  /\ stepped' = TRUE
  /\ UNCHANGED othervars
  /\ UNCHANGED <<params, t, dt, u_initializer, info>>

\* return_info that clears the spike variable it hands out (a read that
\* consumes the spikes).
ReturnInfo_consuming ==
  /\ stepped
  /\ return_info(cls, Current).present
  /\ info' = return_info(cls, Current)
  /\ spike' = IF spike.present THEN Fill(spike.shape, SpikeZero(IsTraining(mode))) ELSE spike
  /\ UNCHANGED othervars
  /\ UNCHANGED <<params, t, dt, V, w, u, I1, I2, V_th, t_last_spike, refractory,
                 u_initializer, ret, last, hist, stepped>>

\* return_info(), by which the driver reads the output of the step's update;
\* it raises when the attribute does not exist.
ReturnInfo ==
  /\ stepped
  /\ return_info(cls, Current).present
  /\ info' = return_info(cls, Current)
  /\ UNCHANGED othervars
  /\ UNCHANGED <<params, t, dt, statevars, u_initializer, ret, last, hist, stepped>>

\* After the step's update the driver advances the shared clock by dt.
Tick ==
  /\ stepped
  /\ t < MaxT
  /\ t' = t + dt
  /\ stepped' = FALSE
  /\ info' = NoVar
  /\ UNCHANGED othervars
  /\ UNCHANGED <<params, dt, statevars, u_initializer, ret, last, hist>>

Next ==
  \/ \E b \in BatchArgs : ResetState(b)
  \/ \E x \in XArgs : Update(x)
  \/ ReturnInfo
  \/ Tick

Spec == Init /\ [][Next]_vars

\* ------------------------------------------------------------ activations.get
\* Python objects, as far as get tells them apart: their type and identity.
Obj(type, name) == [type |-> type, name |-> name]

NoneObj == Obj("NoneType", "None")

\* callable(x)
callable(x) == x.type \in {"function", "type"}

\* __all__ of brainpy._src.math.activations
ActivationsAll ==
  {"celu", "elu", "gelu", "glu", "hard_tanh", "hard_sigmoid", "hard_silu",
   "hard_swish", "leaky_relu", "log_sigmoid", "log_softmax", "one_hot",
   "normalize", "relu", "relu6", "sigmoid", "soft_sign", "softmax", "softplus",
   "silu", "swish", "selu", "identity"}

\* The functions the module defines with def.
DefinedFunctions ==
  {"get", "identity", "celu", "elu", "gelu", "glu", "hard_tanh", "hard_sigmoid",
   "hard_silu", "leaky_relu", "softplus", "log_sigmoid", "log_softmax",
   "_canonicalize_axis", "one_hot", "normalize", "relu", "relu6", "sigmoid",
   "soft_sign", "softmax", "silu", "selu"}

\* The names the module imports.
ImportedModules == {"operator", "jax", "jnp", "np"}

\* The names every module's namespace holds after import.
ModuleAttributes == {"__name__", "__doc__", "__file__", "__builtins__"}

\* globals() of the module: the namespace after the module body has run.
global_vars ==
  [n \in DefinedFunctions \cup ImportedModules \cup ModuleAttributes
           \cup {"Array", "__all__", "hard_swish", "swish"} |->
     CASE n \in DefinedFunctions -> Obj("function", n)
       [] n \in ImportedModules -> Obj("module", n)
       [] n = "Array" -> Obj("type", "Array")
       [] n = "__all__" -> Obj("list", "__all__")
       [] n = "hard_swish" -> Obj("function", "hard_silu")
       [] n = "swish" -> Obj("function", "silu")
       [] n = "__builtins__" -> Obj("dict", "__builtins__")
       [] OTHER -> Obj("str", n)]

\* What a call ends with: a returned object or a raised exception.
Return(x) == [kind |-> "return", value |-> x]

Raise(exception) == [kind |-> "raise", value |-> Obj(exception, "")]

Pending == [kind |-> "pending", value |-> NoneObj]

\* def get(activation)
get(a) ==
  IF a = NoneObj THEN Return(NoneObj)
  ELSE IF a.type = "str"
       THEN IF a.name \notin DOMAIN global_vars
            THEN Raise("ValueError")
            ELSE Return(global_vars[a.name])
  ELSE IF callable(a) THEN Return(a)
  ELSE Raise("ValueError")

\* Strings that name nothing in the module.
UnknownNames == {"", "tanh", "Relu", "linear", "jax.nn.relu", "numpy"}

\* The arguments get is called with: None, strings, callables and other objects.
Activations ==
  {NoneObj}
    \cup {Obj("str", n) : n \in DOMAIN global_vars \cup UnknownNames}
    \cup {Obj("function", "relu"), Obj("function", "user_fn"), Obj("type", "Array"), Obj("type", "Layer")}
    \cup {Obj("int", "1"), Obj("list", "[relu]"), Obj("module", "jax")}

\* Calls made in one scenario.
MaxCalls == 2

InitGet ==
  /\ activation \in Activations
  /\ outcome = Pending
  /\ ncalls = 0
  /\ NeuronNotBuilt /\ MgNotBuilt /\ RunNotBuilt

\* The call get(activation) runs to its end.
Get ==
  /\ outcome = Pending
  /\ outcome' = get(activation)
  /\ ncalls' = ncalls + 1
  /\ UNCHANGED <<activation, neuronvars, mgvars, runvars>>

\* The caller makes the next call.
Call(a) ==
  /\ outcome # Pending
  /\ ncalls < MaxCalls
  /\ activation' = a
  /\ outcome' = Pending
  /\ UNCHANGED <<ncalls, neuronvars, mgvars, runvars>>

NextGet ==
  \/ Get
  \/ \E a \in Activations : Call(a)

SpecGet == InitGet /\ [][NextGet]_vars

\* -------------------------------------------------------------------- MgBlock
\* The post-synaptic groups a master connects to: the attributes hasattr and
\* getattr see (state Variables, parameters, the population size num).
PostGroups ==
  {[V |-> Obj("Variable", "Lif.V"), spike |-> Obj("Variable", "Lif.spike"),
    V_th |-> Obj("float", "Lif.V_th"), num |-> Obj("int", "Lif.num")],
   [V |-> Obj("Variable", "Gif.V"), spike |-> Obj("Variable", "Gif.spike"),
    V_th |-> Obj("Variable", "Gif.V_th"), num |-> Obj("int", "Gif.num")],
   [spike |-> Obj("Variable", "SpikeTimeGroup.spike"),
    num |-> Obj("int", "SpikeTimeGroup.num")]}

\* The masters (synapses) an output is registered to: the post group and its size.
Masters == {[post |-> g, num |-> n] : g \in PostGroups, n \in 1..PopSize}

\* The constructor's membrane_var: a name, a Variable, or something else.
MembraneVars ==
  {Obj("str", n) : n \in {"V", "V_th", "spike", "num", "u", "Vm"}}
    \cup {Obj("Variable", "Lif.V"), Obj("Variable", "HH.V")}
    \cup {NoneObj, Obj("int", "0"), Obj("function", "f"), Obj("list", "[V]")}

\* E as given: a number (the default 0.) or an initializer called with the size.
EArgs == {"float", "Initializer"}

\* parameter(param, sizes, allow_none=False) for a number or an initializer
parameter(param, num) ==
  IF param = "Initializer" THEN [kind |-> "array", size |-> num]
  ELSE [kind |-> param, size |-> 0]

\* MgBlock.register_master(master): the attributes and the exception it ends with.
register_master(self, m) ==
  LET converted == [E |-> parameter(self.mg.E, m.num),
                    cc_Mg |-> parameter(self.mg.cc_Mg, m.num),
                    alpha |-> parameter(self.mg.alpha, m.num),
                    beta |-> parameter(self.mg.beta, m.num)]
      mv == self.membrane_var
      done(var, exc) ==
        [membrane_var |-> var, master |-> m, mg |-> converted, raised |-> exc]
  IN IF mv.type = "str"
     THEN IF mv.name \notin DOMAIN m.post
          THEN done(mv, "KeyError")
          ELSE done(m.post[mv.name], "None")
     ELSE IF mv.type = "Variable"
          THEN done(mv, "None")
     ELSE done(mv, "TypeError")

\* MgBlock(E=..., membrane_var=...) with the other arguments at their defaults.
InitMg ==
  /\ mg_args \in [E : EArgs, cc_Mg : {"float"}, alpha : {"float"}, beta : {"float"},
                  membrane_var : MembraneVars]
  /\ membrane_var = mg_args.membrane_var
  /\ mg = [E |-> mg_args.E, cc_Mg |-> "float", alpha |-> "float", beta |-> "float"]
  /\ master = NoneObj
  /\ raised = "None"
  /\ NeuronNotBuilt /\ GetNotBuilt /\ RunNotBuilt

\* The synapse registers itself as the output's master, once.
RegisterMaster(m) ==
  /\ master = NoneObj
  /\ LET self == [membrane_var |-> membrane_var, mg |-> mg]
         r == register_master(self, m)
     IN /\ membrane_var' = r.membrane_var
        /\ master' = r.master
        /\ mg' = r.mg
        /\ raised' = r.raised
  /\ UNCHANGED <<mg_args, neuronvars, getvars, runvars>>

NextMg == \E m \in Masters : RegisterMaster(m)

SpecMg == InitMg /\ [][NextMg]_vars

\* ------------------------------------------------------------------- DSRunner
\* Steps per unit of time with the default dt = 0.1: times are counted in
\* steps of dt, so that a time of T is T * StepsPerUnit steps.
StepsPerUnit == 10

\* runner.run(30.)
TestDuration == 30

\* size=2
TestSize == 2

\* times=[10, 20, 20, 30], indices=[0, 0, 1, 1], as <<time, index + 1>>
TestTimes == <<<<10, 1>>, <<20, 1>>, <<20, 2>>, <<30, 2>>>>

\* The input groups that are run: a SpikeTimeGroup with the spike times of
\* the test or with one early spike of its first neuron, or a PoissonGroup.
InputGroups ==
  {g \in [kind : {"SpikeTimeGroup"}, size : 1..PopSize,
          times : {TestTimes, <<<<1, 1>>>>}, i : {1},
          spike : UNION {[1..n -> {FALSE}] : n \in 1..PopSize}] :
     /\ DOMAIN g.spike = 1..g.size
     /\ \A k \in 1..Len(g.times) : g.times[k][2] <= g.size}
  \cup
  {[kind |-> "PoissonGroup", size |-> n, times |-> <<>>, i |-> 1,
    spike |-> [k \in 1..n |-> FALSE]] : n \in 1..PopSize}

\* The durations run is called with.
Durations == (1..MaxT) \cup {TestDuration}

\* The number of steps with both ends of the interval counted.
num_step_inclusive(d) == d * StepsPerUnit + 1

\* The number of steps of run(duration): duration / dt.
num_step(d) == d * StepsPerUnit

RECURSIVE SpikeTimeGroup_emit(_, _)
\* SpikeTimeGroup.update's loop: while self.i < len(times) and t >= times[i],
\* set spike[indices[i]] and advance i. tk is the clock time in steps of dt.
SpikeTimeGroup_emit(g, tk) ==
  IF g.i <= Len(g.times) /\ tk >= g.times[g.i][1] * StepsPerUnit
  THEN SpikeTimeGroup_emit(
         [g EXCEPT !.spike[g.times[g.i][2]] = TRUE, !.i = g.i + 1], tk)
  ELSE g

\* model.update() at clock time tk: the states the group can be left in. A
\* PoissonGroup draws each neuron's spike at random.
input_group_update(g, tk) ==
  IF g.kind = "SpikeTimeGroup"
  THEN {SpikeTimeGroup_emit([g EXCEPT !.spike = [k \in 1..g.size |-> FALSE]], tk)}
  ELSE {[g EXCEPT !.spike = row] : row \in [1..g.size -> BOOLEAN]}

\* The monitor after one more record of the variable value.
monitor_record(m, value) ==
  [shape |-> <<m.shape[1] + 1, Len(value)>>, last |-> value]

\* DSRunner(model, monitors=['spike']) and the call run(duration).
InitRun ==
  /\ model \in InputGroups
  /\ duration \in Durations
  /\ run_i = 0
  /\ mon = [shape |-> <<0, model.size>>, last |-> model.spike]
  /\ NeuronNotBuilt /\ GetNotBuilt /\ MgNotBuilt

\* One step of run: the clock is run_i * dt, the model is updated, and the
\* monitored variable is recorded.
RunStep ==
  /\ run_i < num_step(duration)
  /\ \E g \in input_group_update(model, run_i) :
       /\ model' = g
       /\ mon' = monitor_record(mon, g.spike)
  /\ run_i' = run_i + 1
  /\ UNCHANGED <<duration, neuronvars, getvars, mgvars>>

NextRun == RunStep

SpecRun == InitRun /\ [][NextRun]_vars

\* ---------------------------------------------------------------- properties
\* The state right after an update: last holds the update's argument and clock
\* time, each neuron's state before it (pre) and what it computed (res).
AfterUpdate == last.op = "update"

Neurons == Idx(V.shape)

FixedThreshold ==
  cls.family \in {"Lif", "ExpIF", "QuaIF", "AdExIF", "AdQuaIF", "Izhikevich"}

\* The family's reset voltage.
ResetValue == IF cls.family = "Izhikevich" THEN par.c ELSE par.V_reset

\* The current the integrator is given for neuron i.
Aggregated(i) ==
  XValue(last.x) + (IF cls.ltc THEN 0 ELSE SumInputs(cur_inputs, last.pre[i].V))

\* One integrator step from neuron i's state before the update.
Integrated(i) == integral(cls, par, cur_inputs, last.pre[i], last.t, Aggregated(i), dt)

\* (t - t_last_spike) <= tau_ref on the t_last_spike stored before the update
InWindow(i) == cls.ref /\ (last.t - last.pre[i].t_last_spike) <= opt.tau_ref

\* The integrated voltage after the refractory gate, where the class has one.
GatedV(i) == IF InWindow(i) THEN last.pre[i].V ELSE Integrated(i).V

\* C1: in inference mode, after an update of a fixed-threshold spiking model a
\* neuron's spike is true iff its integrated, refractory-gated voltage is
\* >= V_th; a spiking neuron stores exactly the reset value (V_reset, c for
\* Izhikevich), a non-spiking one the gated voltage itself, which is < V_th.
C1_InferenceSpikeAndReset ==
  (AfterUpdate /\ ~IsTraining(mode) /\ FixedThreshold) =>
    \A i \in Neurons :
      /\ spike.val[i] = (GatedV(i) >= par.V_th)
      /\ spike.val[i] => V.val[i] = ResetValue
      /\ ~spike.val[i] => (V.val[i] = GatedV(i) /\ V.val[i] < par.V_th)

\* V_th = 20, V_reset = -5: a step takes one neuron from 18 to 22, which spikes
\* and stores -5, while another neuron of the population stays below threshold.
C1_Witness ==
  /\ AfterUpdate /\ ~IsTraining(mode) /\ cls.family = "Lif"
  /\ par.V_th = 20 /\ par.V_reset = -5
  /\ \E i \in Neurons :
       /\ last.pre[i].V = 18 /\ GatedV(i) = 22
       /\ spike.val[i] /\ V.val[i] = -5
  /\ \E j \in Neurons : ~spike.val[j] /\ V.val[j] = GatedV(j)

\* C2: update(x) of every spiking model class, the simplified ones included,
\* returns the spike tensor it stored in the spike variable during the call.
C2_UpdateReturnsSpike ==
  (AfterUpdate /\ cls.family # "IF") => (ret.present /\ ret = spike)

\* The neuron's last spike, made in an earlier update since the last reset,
\* is at most tau_ref before the update's clock time.
AfterSpike(i) ==
  /\ 0 <= last.pre[i].t_last_spike
  /\ last.pre[i].t_last_spike < last.t
  /\ last.t <= last.pre[i].t_last_spike + opt.tau_ref

\* The neuron spiked earlier and the update's clock time is past the window.
PastWindow(i) ==
  /\ 0 <= last.pre[i].t_last_spike
  /\ last.t > last.pre[i].t_last_spike + opt.tau_ref

\* C3 (as the code has it): a neuron of a Ref model that spiked at t0 has, at
\* every update at t with t0 < t <= t0 + tau_ref, the voltage stored by the
\* previous update handed to the spike/reset stage instead of the integrated
\* one; in inference mode with the reset value below V_th it therefore stays at
\* the value the spike step stored, the reset value, without spiking.  At the
\* first update with t > t0 + tau_ref the integrated voltage is used again.
C3_FrozenAtResetValue ==
  (AfterUpdate /\ cls.ref) =>
    \A i \in Neurons :
      /\ AfterSpike(i) =>
           /\ last.res[i].Vg = last.pre[i].V
           /\ (~IsTraining(mode) /\ FixedThreshold /\ ResetValue < par.V_th) =>
                (V.val[i] = ResetValue /\ V.val[i] = last.pre[i].V /\ ~spike.val[i])
      /\ PastWindow(i) => last.res[i].Vg = Integrated(i).V

\* At one update a neuron is held at the reset value although the integrator
\* moved it, and another, whose window ended with the previous tick, is
\* integrated again.
C3_Witness ==
  /\ AfterUpdate /\ cls.ref /\ ~IsTraining(mode) /\ FixedThreshold /\ opt.tau_ref > 0
  /\ \E i \in Neurons :
       /\ AfterSpike(i) /\ Integrated(i).V # last.pre[i].V
       /\ V.val[i] = ResetValue /\ hist.held[i] # ResetValue
  /\ \E j \in Neurons :
       /\ last.t = last.pre[j].t_last_spike + opt.tau_ref + dt
       /\ 0 <= last.pre[j].t_last_spike
       /\ last.res[j].Vg = Integrated(j).V /\ V.val[j] # last.pre[j].V

\* C3 as stated: during the window the voltage is the one the neuron had before
\* the step in which it spiked.
C3_FrozenAtPreSpikeStepValue ==
  (AfterUpdate /\ cls.ref) =>
    \A i \in Neurons : AfterSpike(i) => V.val[i] = hist.held[i]

\* C4: in a Ref model the update's refractory flag of a neuron is
\* (t - t_last_spike) <= tau_ref on the t_last_spike stored before the update;
\* a refractory neuron hands the voltage stored before the update to the
\* spike/reset stage, any other neuron the integrated voltage.
C4_RefractoryGate ==
  (AfterUpdate /\ cls.ref) =>
    \A i \in Neurons :
      /\ last.res[i].gate = ((last.t - last.pre[i].t_last_spike) <= opt.tau_ref)
      /\ last.res[i].gate => last.res[i].Vg = last.pre[i].V
      /\ ~last.res[i].gate => last.res[i].Vg = Integrated(i).V
      /\ FixedThreshold =>
           (IF IsTraining(mode) THEN spike.val[i] > 0 ELSE spike.val[i])
             = (spk_fun(opt.spk_fun, last.res[i].Vg - par.V_th) > 0)

\* One update with a refractory neuron whose integrated voltage is discarded
\* and a non-refractory neuron whose integrated voltage is used.
C4_Witness ==
  /\ AfterUpdate /\ cls.ref
  /\ \E i \in Neurons :
       /\ last.res[i].gate /\ Integrated(i).V # last.pre[i].V
       /\ last.res[i].Vg = last.pre[i].V
  /\ \E j \in Neurons :
       /\ ~last.res[j].gate /\ Integrated(j).V # last.pre[j].V
       /\ last.res[j].Vg = Integrated(j).V

\* The neuron's stored spike value counts as a spike.
SpikeStored(i) == IF IsTraining(mode) THEN spike.val[i] > 0 ELSE spike.val[i]

\* C5: after an update of a Ref model t_last_spike is the update's clock time
\* for every neuron that spiked in it and unchanged for every other neuron;
\* at all times it is the value reset_state fills in or a clock time that is
\* not later than the current t.
C5_LastSpikeTime ==
  (cls.ref /\ t_last_spike.present) =>
    /\ \A i \in Idx(t_last_spike.shape) :
         \/ t_last_spike.val[i] = FillValue(cls.family)
         \/ (0 <= t_last_spike.val[i] /\ t_last_spike.val[i] <= t)
    /\ AfterUpdate =>
         \A i \in Neurons :
           t_last_spike.val[i] =
             IF SpikeStored(i) THEN last.t ELSE last.pre[i].t_last_spike

\* After a tick: one neuron that spiked in the last update carries its time,
\* another still carries the value from reset_state.
C5_Witness ==
  /\ AfterUpdate /\ cls.ref /\ t > last.t
  /\ \E i \in Neurons : SpikeStored(i) /\ t_last_spike.val[i] = last.t
  /\ \E j \in Neurons :
       /\ ~SpikeStored(j)
       /\ t_last_spike.val[j] = FillValue(cls.family)
       /\ t_last_spike.val[j] = last.pre[j].t_last_spike

RECURSIVE Iterate(_, _)
\* n integrator steps without input, one after the other, from the voltage v
Iterate(n, v) ==
  IF n = 0 THEN v
  ELSE integral(cls, par, cur_inputs, [V |-> Iterate(n - 1, v)], t, 0, dt).V

\* The neuron neither spiked nor was refractory in the update.
Quiet(i) ==
  /\ ~last.res[i].gate
  /\ cls.family # "IF" => ~SpikeStored(i)

\* C6: the integrator's output that an update uses is one integrator step of
\* size dt from the state stored before the update, at the clock time t, on
\* the aggregated input; where no spike and no refractory gate intervene, the
\* stored variables are that output.  For IFLTC, n updates without an argument
\* leave exactly the n-fold composition of the integrator step applied to the
\* voltage they started from: no reset, no threshold.
C6_OneIntegratorStep ==
  /\ AfterUpdate =>
       \A i \in Neurons :
         /\ last.res[i].y = Integrated(i)
         /\ Quiet(i) =>
              LET h == HasVar(cls, opt)
              IN /\ V.val[i] = Integrated(i).V
                 /\ h.w => w.val[i] = Integrated(i).w
                 /\ h.u => u.val[i] = Integrated(i).u
                 /\ h.I1 => I1.val[i] = Integrated(i).I1
                 /\ h.I2 => I2.val[i] = Integrated(i).I2
                 /\ h.V_th => V_th.val[i] = Integrated(i).V_th
  /\ (cls.family = "IF" /\ cls.ltc /\ V.present /\ last.ok) =>
       \A i \in Neurons : V.val[i] = Iterate(hist.n, hist.V0[i])

\* IFLTC after at least two updates without an argument, the voltage of one
\* neuron having moved at each of them.
C6_Witness ==
  /\ AfterUpdate /\ cls.family = "IF" /\ cls.ltc /\ hist.n >= 2
  /\ \E i \in Neurons :
       /\ V.val[i] = Iterate(2, Iterate(hist.n - 2, hist.V0[i]))
       /\ V.val[i] # last.pre[i].V
       /\ last.pre[i].V # hist.V0[i]

Adaptive == cls.family \in {"AdExIF", "AdQuaIF"}

\* C7: after an update of an adaptive model, w is the w integrated in that
\* update plus b for a neuron that spiked in inference mode, plus b * spike in
\* training mode, and the integrated w itself when the spike value is 0.
C7_AdaptationJump ==
  (AfterUpdate /\ Adaptive) =>
    \A i \in Neurons :
      IF IsTraining(mode)
      THEN /\ w.val[i] = Integrated(i).w + Scaled(par.b, spike.val[i])
           /\ spike.val[i] = 0 => w.val[i] = Integrated(i).w
           /\ spike.val[i] = SpkScale => w.val[i] = Integrated(i).w + par.b
      ELSE w.val[i] = Integrated(i).w + (IF spike.val[i] THEN par.b ELSE 0)

\* A training-mode update in which one neuron spikes and its w jumps while
\* another neuron's w is just integrated.
C7_Witness ==
  /\ AfterUpdate /\ Adaptive /\ IsTraining(mode) /\ par.b > 0
  /\ \E i \in Neurons :
       /\ spike.val[i] > 0
       /\ w.val[i] = Integrated(i).w + Scaled(par.b, spike.val[i])
       /\ w.val[i] > Integrated(i).w
  /\ \E j \in Neurons : spike.val[j] = 0 /\ w.val[j] = Integrated(j).w

\* C8: in training mode the voltage update writes is V + (reset - V) * spike,
\* V the integrated and gated voltage, reset the family's reset voltage
\* (V_reset, c for Izhikevich) and spike the surrogate's output.
C8_TrainingSoftReset ==
  (AfterUpdate /\ IsTraining(mode) /\ cls.family # "IF") =>
    \A i \in Neurons :
      /\ V.val[i] = GatedV(i) + Scaled(ResetValue - GatedV(i), spike.val[i])
      /\ spike.val[i] = SpkScale => V.val[i] = ResetValue
      /\ spike.val[i] = 0 => V.val[i] = GatedV(i)

\* reset_state(batch) on a model that has just been constructed and holds no
\* state yet: every variable is its initializer's output.
FreshReset(batch) == reset_state(cls, Blank(opt), par, opt, IsTraining(mode), batch)

\* C9: reset_state(batch_size), whatever came before it, leaves the state that
\* reset_state gives on a freshly constructed model: V, w, u, I1, I2 and V_th
\* are their initializers' outputs, spike is all zero/false, t_last_spike is
\* the fill value everywhere and, with ref_var, refractory is all false.
C9_ResetDiscardsPriorState ==
  last.op = "reset" =>
    /\ last.ok
    /\ V = FreshReset(last.batch).V
    /\ w = FreshReset(last.batch).w
    /\ u = FreshReset(last.batch).u
    /\ I1 = FreshReset(last.batch).I1
    /\ I2 = FreshReset(last.batch).I2
    /\ V_th = FreshReset(last.batch).V_th
    /\ spike = FreshReset(last.batch).spike
    /\ t_last_spike = FreshReset(last.batch).t_last_spike
    /\ refractory = FreshReset(last.batch).refractory
    /\ cls.family # "IF" => spike = Fill(VarShape(last.batch), SpikeZero(IsTraining(mode)))
    /\ cls.ref => t_last_spike = Fill(VarShape(last.batch), FillValue(cls.family))
    /\ (cls.ref /\ opt.ref_var) => refractory = Fill(VarShape(last.batch), FALSE)

\* The state variables the class has all exist and have the given shape.
AllShaped(shape) ==
  LET h == HasVar(cls, opt)
      has(present, v) == present => (v.present /\ v.shape = shape)
  IN /\ has(h.V, V) /\ has(h.w, w) /\ has(h.u, u) /\ has(h.I1, I1) /\ has(h.I2, I2)
     /\ has(h.V_th, V_th) /\ has(h.spike, spike)
     /\ has(h.t_last_spike, t_last_spike) /\ has(h.refractory, refractory)

\* C10: after reset_state(batch_size) every state variable of the model has
\* the shape (batch_size, population) or, without a batch size, (population);
\* an update keeps every shape; so whenever the state exists all variables
\* have one shape.
C10_ShapeInvariant ==
  /\ last.op = "reset" => AllShaped(VarShape(last.batch))
  /\ AfterUpdate => (AllShaped(V.shape) /\ Neurons = DOMAIN last.pre)
  /\ V.present => AllShaped(V.shape)

Occurs(o, a) == \E j \in DOMAIN o : o[j] = a

\* The stages that compute, and those that assign to a state variable.
ComputeStages == {"derivative", "integration", "gating", "spike", "reset"}

WriteStages == {"write_refractory", "commit"}

IsComputeStage(e) == e \in ComputeStages

TotalCurrent(i) == XValue(last.x) + SumInputs(cur_inputs, last.pre[i].V)

\* One integrator step of the class's plain derivative (no registered inputs
\* added inside) from neuron i's state before the update, on the current I.
PlainStep(i, I) ==
  integral([cls EXCEPT !.ltc = FALSE], par, <<>>, last.pre[i], last.t, I, dt)

\* C12: in LTC and in simplified classes alike the voltage derivative of one
\* update receives the explicit input (zero when omitted) plus each registered
\* current input exactly once, evaluated on the voltage the derivative is
\* evaluated at, which is the voltage stored before the step; a simplified class
\* sums the inputs in update before the integration; with no registered input
\* and no explicit input the current is zero.
C12_CurrentAggregation ==
  AfterUpdate =>
    \A i \in Neurons :
      /\ last.res[i].y.V = PlainStep(i, TotalCurrent(i)).V
      /\ (~cls.ltc) = (last.res[i].order[1] = "cur_inputs")
      /\ (cur_inputs = <<>> /\ ~last.x.given) =>
           /\ TotalCurrent(i) = 0
           /\ last.res[i].y.V = PlainStep(i, 0).V

\* An update with an explicit input of a simplified class that has a
\* registered input whose value at the stored voltage is not zero.
C12_Witness ==
  /\ AfterUpdate /\ ~cls.ltc /\ last.x.given /\ cur_inputs # <<>>
  /\ \E i \in Neurons :
       /\ SumInputs(cur_inputs, last.pre[i].V) # 0
       /\ PlainStep(i, TotalCurrent(i)).V # PlainStep(i, XValue(last.x)).V

\* The same for an LTC class, whose derivative adds the registered input.
C12_WitnessLTC ==
  /\ AfterUpdate /\ cls.ltc /\ cur_inputs # <<>>
  /\ \E i \in Neurons :
       PlainStep(i, TotalCurrent(i)).V # PlainStep(i, XValue(last.x)).V

\* An update without registered inputs and without an explicit input.
C12_WitnessZero ==
  AfterUpdate /\ cur_inputs = <<>> /\ ~last.x.given

\* What return_info hands out is the state variable itself: the spike variable
\* of a spiking model, V of the IF family.
ReturnsLiveVariable ==
  info.present => info = (IF cls.family = "IF" THEN V ELSE spike)

\* A step that changes a state variable is an update or a reset_state.
OnlyUpdateOrResetWrites ==
  statevars' # statevars =>
    \/ \E b \in BatchArgs : ResetState(b)
    \/ \E x \in XArgs : Update(x)

\* C13: return_info changes no state variable and returns the live spike
\* variable of a spiking model and the voltage variable V of IF/IFLTC; a state
\* variable changes only in update or reset_state.
C13_UpdateSoleMutationPoint ==
  []ReturnsLiveVariable /\ [][OnlyUpdateOrResetWrites]_vars

\* return_info was called after an update in which a neuron spiked.
C13_Witness ==
  /\ AfterUpdate /\ stepped /\ info.present /\ cls.family # "IF"
  /\ \E i \in Neurons : SpikeStored(i)

\* The parameters hold the values the constructor gave them.
ParametersAsConstructed ==
  /\ par = DefaultPar(cls.family)
  /\ opt \in Options(cls, IsTraining(mode))

\* An update leaves the shared clock alone; an update or a reset_state leaves
\* every parameter alone.
ClockAndParametersKept ==
  /\ (\E x \in XArgs : Update(x)) => (t' = t /\ dt' = dt)
  /\ ((\E x \in XArgs : Update(x)) \/ (\E b \in BatchArgs : ResetState(b))) =>
       (par' = par /\ opt' = opt /\ cur_inputs' = cur_inputs)

\* C14: update never writes the shared clock (t, dt), and after any sequence
\* of reset_state and update calls every parameter (V_rest, V_reset, the
\* thresholds, tau, R, a, b, c, d, k1, k2, R1, R2, A1, A2, V_th_inf,
\* V_th_reset, tau_ref) has its construction-time value.
C14_ClockAndParametersFrame ==
  []ParametersAsConstructed /\ [][ClockAndParametersKept]_vars

\* A Gif model with a refractory period after a reset_state at a later tick
\* followed by an update in which a neuron spiked.
C14_Witness ==
  /\ AfterUpdate /\ cls.family = "Gif" /\ cls.ref /\ opt.tau_ref > 0 /\ t >= 2
  /\ \A i \in Neurons : hist.held[i] = InitOut(opt.V_initializer, par.V0, V.shape).val[i]
  /\ \E i \in Neurons : SpikeStored(i)

\* C15: with ref_var, after each update of a Ref model a neuron's refractory
\* variable is (the gate condition on the t_last_spike stored before the
\* update) or (the neuron spiked in this update; surrogate output > 0 in a
\* training mode); reset_state sets it to false everywhere; without ref_var no
\* refractory variable is created or written.
C15_RefractoryVariable ==
  /\ (AfterUpdate /\ cls.ref /\ opt.ref_var) =>
       \A i \in Neurons :
         refractory.val[i] =
           (((last.t - last.pre[i].t_last_spike) <= opt.tau_ref) \/ SpikeStored(i))
  /\ (last.op = "reset" /\ last.ok /\ cls.ref /\ opt.ref_var) =>
       /\ refractory.present /\ refractory.shape = VarShape(last.batch)
       /\ \A i \in Idx(refractory.shape) : refractory.val[i] = FALSE
  /\ ~(cls.ref /\ opt.ref_var) => refractory = NoVar

\* An update with ref_var in which one neuron becomes refractory by spiking
\* outside its window and another is refractory by its window without spiking.
C15_Witness ==
  /\ AfterUpdate /\ cls.ref /\ opt.ref_var
  /\ \E i \in Neurons :
       /\ ~InWindow(i) /\ SpikeStored(i) /\ refractory.val[i]
       /\ ~last.pre[i].refractory
  /\ \E j \in Neurons : InWindow(j) /\ ~SpikeStored(j) /\ refractory.val[j]

\* An update of a Ref class built without ref_var in which a neuron spikes.
C15_WitnessNoRefVar ==
  /\ AfterUpdate /\ cls.ref /\ ~opt.ref_var /\ refractory = NoVar
  /\ \E i \in Neurons : SpikeStored(i)

\* A reset_state at a later tick of a model with ref_var.
C15_WitnessReset ==
  /\ last.op = "reset" /\ last.ok /\ cls.ref /\ opt.ref_var /\ last.t > 0
  /\ \A i \in Idx(refractory.shape) : ~refractory.val[i]

\* C16: in inference mode, after an update of a Gif model a neuron that
\* spiked stores V_th = max(V_th_reset, integrated V_th), hence never less than
\* V_th_reset, and a neuron that did not spike stores exactly the integrated
\* V_th.
C16_GifThresholdClamp ==
  (AfterUpdate /\ cls.family = "Gif" /\ ~IsTraining(mode)) =>
    \A i \in Neurons :
      IF spike.val[i]
      THEN /\ V_th.val[i] = Max(par.V_th_reset, Integrated(i).V_th)
           /\ V_th.val[i] >= par.V_th_reset
      ELSE V_th.val[i] = Integrated(i).V_th

\* A Gif update in inference mode where a neuron spikes with an integrated
\* threshold above V_th_reset, which it keeps.
C16_WitnessKept ==
  /\ AfterUpdate /\ cls.family = "Gif" /\ ~IsTraining(mode)
  /\ \E i \in Neurons :
       /\ spike.val[i]
       /\ Integrated(i).V_th > par.V_th_reset
       /\ V_th.val[i] = Integrated(i).V_th

\* A Gif update in inference mode where a neuron spikes with an integrated
\* threshold below V_th_reset, which is raised to V_th_reset.
C16_Witness ==
  /\ AfterUpdate /\ cls.family = "Gif" /\ ~IsTraining(mode)
  /\ \E i \in Neurons :
       /\ spike.val[i]
       /\ Integrated(i).V_th < par.V_th_reset
       /\ V_th.val[i] = par.V_th_reset

\* C17: in a training mode with detach_spk, after an update of any spiking
\* model the spike that update returns and stores carries gradient, and the
\* spike used for t_last_spike and the refractory flag carries none.
C17_DetachKeepsOutputGradient ==
  (AfterUpdate /\ IsTraining(mode) /\ opt.detach_spk /\ cls.family # "IF") =>
    \A i \in Neurons :
      /\ last.res[i].trace.spike
      /\ cls.ref => ~last.res[i].trace.book

\* The same for the Ref classes alone, which keep spike and spike_no_grad apart.
C17_RefClassesKeepOutputGradient ==
  (AfterUpdate /\ IsTraining(mode) /\ opt.detach_spk /\ cls.ref) =>
    \A i \in Neurons :
      last.res[i].trace.spike /\ ~last.res[i].trace.book

\* The update of a spiking model took one mode path, the one of the model's
\* mode: spk_fun (and stop_gradient) in a training mode only, the hard
\* comparison with the overwrite otherwise.
OneModePath(i) ==
  LET prims == last.res[i].trace.prims
  IN IF IsTraining(mode)
     THEN "spk_fun" \in prims /\ prims \subseteq {"spk_fun", "stop_gradient"}
     ELSE prims = {"hard_threshold", "overwrite"}

\* An update leaves the mode alone.
UpdateKeepsMode == (\E x \in XArgs : Update(x)) => mode' = mode

\* One mode path, and one test of the mode in the update.
ModeCheckedOnce ==
  (AfterUpdate /\ cls.family # "IF") =>
    \A i \in Neurons : OneModePath(i) /\ last.res[i].trace.checks = 1

ModeCheckedPerStage ==
  (AfterUpdate /\ cls.family # "IF") =>
    \A i \in Neurons :
      OneModePath(i) /\ last.res[i].trace.checks = (IF cls.ref THEN 2 ELSE 1)

Threshold(i) == IF cls.family = "Gif" THEN last.pre[i].V_th ELSE par.V_th

\* Neuron i's spike variable was set before the update, by an earlier update.
SpikedBefore(i) ==
  IF IsTraining(mode) THEN last.pre[i].spike > 0 ELSE last.pre[i].spike

\* Neuron i's state before the update with the spike variable cleared.
SpikeForgotten(i) == [last.pre[i] EXCEPT !.spike = SpikeZero(IsTraining(mode))]

AfterReset ==
  \/ last.op = "reset" /\ last.ok
  \/ last.op = "init" /\ t_last_spike.present

\* The first update after a reset_state: no neuron had spiked before it.
FirstUpdate ==
  AfterUpdate /\ \A i \in Neurons : last.pre[i].t_last_spike \in {Sentinel7, Sentinel8}

\* C20: after reset_state t_last_spike is -1e7, the documented initial value,
\* for every neuron of every Ref model, so no neuron is refractory at a first
\* update at t >= 0.
C20_InitialLastSpikeTime ==
  /\ (cls.ref /\ AfterReset) =>
       \A i \in Idx(t_last_spike.shape) : t_last_spike.val[i] = Sentinel7
  /\ (cls.ref /\ FirstUpdate) => \A i \in Neurons : ~last.res[i].gate

\* The part that holds: t_last_spike is one of the two sentinels after
\* reset_state, and no neuron is refractory at a first update.
C20_NotRefractoryAtFirstUpdate ==
  /\ (cls.ref /\ AfterReset) =>
       \A i \in Idx(t_last_spike.shape) :
         t_last_spike.val[i] = (IF cls.family \in {"AdExIF", "AdQuaIF", "Gif"}
                                THEN Sentinel8 ELSE Sentinel7)
  /\ (cls.ref /\ FirstUpdate) => \A i \in Neurons : ~last.res[i].gate

\* Neuron i's stored spike is a full spike (True, or the surrogate value 1).
FullSpike(i) == IF IsTraining(mode) THEN spike.val[i] = SpkScale ELSE spike.val[i]

\* Neuron i's stored spike is no spike (False, or the surrogate value 0).
NoSpike(i) == IF IsTraining(mode) THEN spike.val[i] = 0 ELSE ~spike.val[i]

\* What a Gif update stores for a neuron that spikes fully.
GifSpikeReset(i) ==
  /\ I1.val[i] = par.R1 * Integrated(i).I1 + par.A1
  /\ I2.val[i] = par.R2 * Integrated(i).I2 + par.A2
  /\ V.val[i] = par.V_reset

\* C23 as stated: a Gif update in which a neuron spikes (True, or 1 in a
\* training mode) sets I1 to R1*I1 + A1, I2 to R2*I2 + A2 on the integrated
\* values and V to V_reset; with no spike I1, I2 and V keep their integrated
\* values.
C23_GifResetKeepsIntegrated ==
  (AfterUpdate /\ cls.family = "Gif") =>
    \A i \in Neurons :
      /\ FullSpike(i) => GifSpikeReset(i)
      /\ NoSpike(i) =>
           /\ I1.val[i] = Integrated(i).I1 /\ I2.val[i] = Integrated(i).I2
           /\ V.val[i] = Integrated(i).V

\* C23 as the code has it: the same, except that without a spike V keeps the
\* gated voltage: the integrated voltage, or for a refractory neuron of GifRef
\* and GifRefLTC the voltage stored before the update.
C23_GifReset ==
  (AfterUpdate /\ cls.family = "Gif") =>
    \A i \in Neurons :
      /\ FullSpike(i) => GifSpikeReset(i)
      /\ NoSpike(i) =>
           /\ I1.val[i] = Integrated(i).I1 /\ I2.val[i] = Integrated(i).I2
           /\ V.val[i] = GatedV(i)

\* An update of a GifRef model in which one neuron spikes fully (True, or
\* value 1) and its currents jump, and another, refractory one does not spike and
\* keeps its stored voltage, not the integrated one.
C23_Witness ==
  /\ AfterUpdate /\ cls.family = "Gif" /\ cls.ref
  /\ \E i \in Neurons :
       /\ FullSpike(i) /\ GifSpikeReset(i)
       /\ I1.val[i] # Integrated(i).I1 /\ I2.val[i] # Integrated(i).I2
  /\ \E j \in Neurons :
       /\ NoSpike(j) /\ InWindow(j) /\ Integrated(j).V # last.pre[j].V
       /\ V.val[j] = last.pre[j].V

\* C24: the spike decision of a Gif update compares the gated voltage of that
\* step with the threshold V_th as integrated in that same step.
C24_GifSpikeOnIntegratedThreshold ==
  (AfterUpdate /\ cls.family = "Gif") =>
    \A i \in Neurons :
      IF IsTraining(mode)
      THEN spike.val[i] = spk_fun(opt.spk_fun, last.res[i].Vg - Integrated(i).V_th)
      ELSE spike.val[i] = (last.res[i].Vg >= Integrated(i).V_th)

\* What the code does: the comparison is with the V_th variable as stored
\* before the update.
C24_GifSpikeOnStoredThreshold ==
  (AfterUpdate /\ cls.family = "Gif") =>
    \A i \in Neurons :
      IF IsTraining(mode)
      THEN spike.val[i] = spk_fun(opt.spk_fun, last.res[i].Vg - last.pre[i].V_th)
      ELSE spike.val[i] = (last.res[i].Vg >= last.pre[i].V_th)

\* C25: in inference mode, in a fixed-threshold Ref model (reset value below
\* V_th, the clock increasing between updates) a neuron does not spike in an
\* update in which it is refractory, so a spike of a neuron that spiked before
\* comes more than tau_ref after its previous spike.
C25_MinimumInterSpikeInterval ==
  (AfterUpdate /\ cls.ref /\ FixedThreshold /\ ~IsTraining(mode)) =>
    \A i \in Neurons :
      /\ InWindow(i) => ~spike.val[i]
      /\ (spike.val[i] /\ last.pre[i].t_last_spike >= 0) =>
           last.t - last.pre[i].t_last_spike > opt.tau_ref

\* A second spike of a neuron of a Ref model with a refractory period, after
\* updates in which it was refractory.
C25_Witness ==
  /\ AfterUpdate /\ cls.ref /\ FixedThreshold /\ ~IsTraining(mode)
  /\ ResetValue < par.V_th /\ opt.tau_ref > 0
  /\ \E i \in Neurons :
       /\ spike.val[i] /\ last.pre[i].t_last_spike >= 0
       /\ last.t - last.pre[i].t_last_spike > opt.tau_ref

\* The update of the class's non-Ref counterpart on neuron i's state before
\* the update, at the same clock time and with the same argument.
NonRefUpdate(i) ==
  update([cls EXCEPT !.ref = FALSE], par, opt, cur_inputs, IsTraining(mode),
         last.pre[i], last.t, last.x, dt)

\* C26: with tau_ref = 0 and a clock that increases between updates the
\* refractory gate of a Ref model never fires, and each update stores the same
\* V, auxiliary variables and spike as the non-Ref counterpart's update from the
\* same state, so the two trajectories agree.
C26_RefEqualsNonRefAtZeroTauRef ==
  (AfterUpdate /\ cls.ref /\ opt.tau_ref = 0) =>
    \A i \in Neurons :
      LET r == last.res[i]
          n == NonRefUpdate(i)
      IN /\ ~r.gate
         /\ r.V = n.V /\ r.w = n.w /\ r.u = n.u
         /\ r.I1 = n.I1 /\ r.I2 = n.I2 /\ r.V_th = n.V_th
         /\ r.spike = n.spike

\* An update of a Ref model with tau_ref = 0 right after the tick at which a
\* neuron spiked: the neuron's voltage moves on from the reset value.
C26_Witness ==
  /\ AfterUpdate /\ cls.ref /\ opt.tau_ref = 0
  /\ \E i \in Neurons :
       /\ last.pre[i].t_last_spike = last.t - dt
       /\ Integrated(i).V # last.pre[i].V
       /\ last.res[i].Vg = Integrated(i).V

\* The families whose two mode branches differ only in how the spike is
\* computed and applied.
TwoBranchFamilies == {"Lif", "ExpIF", "QuaIF", "AdExIF", "AdQuaIF"}

\* The same update taken by the inference branch from the same stored state.
InferenceUpdate(i) ==
  update(cls, par, opt, cur_inputs, FALSE, last.pre[i], last.t, last.x, dt)

\* C27: with a surrogate whose forward value is the exact step, an update of a
\* Lif, ExpIF, QuaIF, AdExIF or AdQuaIF class (Ref or not, LTC or not) in
\* training mode stores the same V, w, t_last_spike and refractory flag as
\* the inference branch does from the same state, clock and inputs, and a
\* spike value 1 exactly where the inference branch stores True, else 0.
C27_TrainingEqualsInferenceOnStep ==
  (AfterUpdate /\ IsTraining(mode) /\ opt.spk_fun = "step"
     /\ cls.family \in TwoBranchFamilies) =>
    \A i \in Neurons :
      LET r == last.res[i]
          n == InferenceUpdate(i)
      IN /\ r.spike \in {0, SpkScale}
         /\ (r.spike = SpkScale) = n.spike
         /\ r.V = n.V
         /\ r.w = n.w
         /\ r.t_last_spike = n.t_last_spike
         /\ r.refractory = n.refractory

\* A training update of an adaptive Ref class with the step surrogate in which
\* a neuron spikes: w jumped, spike time stamped, refractory flag raised.
C27_Witness ==
  /\ AfterUpdate /\ IsTraining(mode) /\ opt.spk_fun = "step"
  /\ cls.family = "AdExIF" /\ cls.ref /\ opt.ref_var
  /\ \E i \in Neurons :
       /\ last.res[i].spike = SpkScale
       /\ last.res[i].w = Integrated(i).w + par.b
       /\ last.res[i].t_last_spike = last.t
       /\ last.res[i].refractory

\* C28: for an Izhikevich class built without a u initializer, every
\* reset_state completes with u = b * V elementwise for the V that reset
\* produced, and keeps no derived initializer for the next reset.
C28_DerivedUFollowsEachReset ==
  (last.op = "reset" /\ cls.family = "Izhikevich" /\ opt.u_initializer = "None") =>
    /\ last.ok
    /\ u.shape = V.shape
    /\ \A i \in Idx(V.shape) : u.val[i] = par.b * V.val[i]
    /\ u_initializer.kind = "None"

\* The value part of C28 alone: after a reset_state that completes, u = b * V
\* for the V of that reset.
C28_UFollowsV ==
  (last.op = "reset" /\ last.ok /\ cls.family = "Izhikevich"
     /\ opt.u_initializer = "None") =>
    /\ u.shape = V.shape
    /\ \A i \in Idx(V.shape) : u.val[i] = par.b * V.val[i]

\* The Ref families with state variables besides V.
MultiVariableFamilies == {"AdExIF", "AdQuaIF", "Izhikevich", "Gif"}

\* C29: in an update of a multi-variable Ref class, a neuron that is
\* refractory and does not spike keeps its stored V, while its w, u, I1, I2
\* and V_th are the values the integrator returned together with the
\* integrated V that the gate discards.
C29_GateFreezesOnlyV ==
  (AfterUpdate /\ cls.ref /\ cls.family \in MultiVariableFamilies) =>
    \A i \in Neurons :
      (InWindow(i) /\ NoSpike(i)) =>
        /\ V.val[i] = last.pre[i].V
        /\ last.res[i].w = Integrated(i).w
        /\ last.res[i].u = Integrated(i).u
        /\ last.res[i].I1 = Integrated(i).I1
        /\ last.res[i].I2 = Integrated(i).I2
        /\ last.res[i].V_th = Integrated(i).V_th

\* A refractory, non-spiking neuron whose integrated V differs from the
\* stored one and whose adaptation variable moved during the update.
C29_Witness ==
  /\ AfterUpdate /\ cls.ref /\ cls.family \in {"AdExIF", "AdQuaIF"}
  /\ \E i \in Neurons :
       /\ InWindow(i) /\ NoSpike(i)
       /\ Integrated(i).V # last.pre[i].V
       /\ V.val[i] = last.pre[i].V
       /\ last.res[i].w # last.pre[i].w
       /\ w.val[i] = last.res[i].w

\* The same for a Gif neuron: I1 and V_th moved while V was held.
C29_WitnessGif ==
  /\ AfterUpdate /\ cls.ref /\ cls.family = "Gif"
  /\ \E i \in Neurons :
       /\ InWindow(i) /\ NoSpike(i)
       /\ Integrated(i).V # last.pre[i].V
       /\ V.val[i] = last.pre[i].V
       /\ V_th.val[i] # last.pre[i].V_th
       /\ I1.val[i] # last.pre[i].I1

\* The same for an Izhikevich neuron: u moved while V was held.
C29_WitnessIzhikevich ==
  /\ AfterUpdate /\ cls.ref /\ cls.family = "Izhikevich"
  /\ \E i \in Neurons :
       /\ InWindow(i) /\ NoSpike(i)
       /\ Integrated(i).V # last.pre[i].V
       /\ V.val[i] = last.pre[i].V
       /\ u.val[i] # last.pre[i].u

\* The activation functions of the module: what the names of __all__ are bound to.
ActivationFunctions == {global_vars[n] : n \in ActivationsAll}

\* C30: get(a) returns None for None, a itself for a callable, the activation
\* function named a for a string that names one, and raises ValueError for
\* anything else; so a string is accepted only when it resolves to a callable
\* activation function.
C30_GetContract ==
  outcome.kind \in {"return", "raise"} =>
    IF activation = NoneObj THEN outcome = Return(NoneObj)
    ELSE IF callable(activation) THEN outcome = Return(activation)
    ELSE IF activation.type = "str" /\ activation.name \in ActivationsAll
         THEN /\ outcome = Return(global_vars[activation.name])
              /\ callable(outcome.value)
    ELSE outcome = Raise("ValueError")

\* What get does with a string: it returns whatever the module's namespace
\* binds to it, and raises ValueError only for a name the namespace lacks.
C30_GetReturnsAnyGlobal ==
  (outcome.kind \in {"return", "raise"} /\ activation.type = "str") =>
    IF activation.name \in DOMAIN global_vars
    THEN outcome = Return(global_vars[activation.name])
    ELSE outcome = Raise("ValueError")

\* The part of C30 that holds: None, callables, the activation names, names
\* the module lacks, and objects that are neither strings nor callable.
C30_GetOnActivations ==
  (outcome.kind \in {"return", "raise"}
     /\ (activation.type = "str" =>
           activation.name \in ActivationsAll \cup UnknownNames)) =>
    IF activation = NoneObj THEN outcome = Return(NoneObj)
    ELSE IF callable(activation) THEN outcome = Return(activation)
    ELSE IF activation.type = "str" /\ activation.name \in ActivationsAll
         THEN outcome.kind = "return" /\ outcome.value \in ActivationFunctions
                /\ callable(outcome.value)
    ELSE outcome = Raise("ValueError")

\* A string that is accepted and resolves to something that cannot be called.
C30_WitnessModuleName ==
  /\ activation.type = "str" /\ outcome.kind = "return" /\ ~callable(outcome.value)

\* C21: register_master raises KeyError when membrane_var is a string the post
\* group has no attribute for, TypeError when it is neither a string nor a
\* Variable, and otherwise finishes with membrane_var bound to a Variable: the
\* post group's attribute of that name for a string, the same Variable else.
C21_MembraneVarResolution ==
  master # NoneObj =>
    LET a == mg_args.membrane_var
    IN IF a.type = "str" /\ a.name \notin DOMAIN master.post
       THEN raised = "KeyError"
       ELSE IF a.type \notin {"str", "Variable"}
       THEN raised = "TypeError"
       ELSE /\ raised = "None"
            /\ membrane_var.type = "Variable"
            /\ a.type = "str" => membrane_var = master.post[a.name]
            /\ a.type = "Variable" => membrane_var = a

\* What register_master does: as C21 states, except that for a string it
\* binds whatever the post group's attribute of that name is.
C21_BindsAnyAttribute ==
  master # NoneObj =>
    LET a == mg_args.membrane_var
    IN IF a.type = "str" /\ a.name \notin DOMAIN master.post
       THEN raised = "KeyError" /\ membrane_var = a
       ELSE IF a.type \notin {"str", "Variable"}
       THEN raised = "TypeError" /\ membrane_var = a
       ELSE /\ raised = "None"
            /\ a.type = "str" => membrane_var = master.post[a.name]
            /\ a.type = "Variable" => membrane_var = a

\* A registration that finishes with membrane_var bound to no Variable.
C21_WitnessNotAVariable ==
  master # NoneObj /\ raised = "None" /\ membrane_var.type # "Variable"

\* run has taken all its steps.
RunFinished == run_i = num_step(duration)

C22_WitnessPoisson ==
  /\ RunFinished /\ duration = TestDuration /\ model.kind = "PoissonGroup"
  /\ model.size = TestSize
  /\ mon.shape = <<300, 2>>
  /\ mon.last[1]

====
